---- MODULE Spec2Model ----
(***************************************************************************)
(* A state-machine model of the rustyboy emulator core: register file,     *)
(* interval timer, serial port, display-controller timing, the bus         *)
(* registers the processor touches, and the processor's stepping loop      *)
(* (Cpu::run_cycle) with its interrupt controller.                         *)
(*                                                                         *)
(* Specifications:                                                         *)
(*   Spec      the processor stepping loop driving timer, display and      *)
(*             serial port (cpu.rs run_cycle)                              *)
(*   SpecTimer the timer driven through update / write_byte (timer.rs)     *)
(*   SpecPpu   the display timing driven through update_ly / write_byte    *)
(*             (ppu.rs)                                                    *)
(*   SpecReg   the register file's af accessors on every 16-bit value      *)
(*             (register.rs)                                               *)
(***************************************************************************)
EXTENDS Integers, Sequences, FiniteSets, TLC

VARIABLES
    reg,              \* Cpu.reg : Register (a,f,b,c,d,e,h,l,sp,pc)
    m,                \* Cpu.m : cycle cost of the last instruction
    halted,           \* Cpu.halted
    ime,              \* Cpu.ime
    enable_ime_next,  \* Cpu.enable_ime_next
    stopped,          \* Cpu.stopped
    STOP_CYCLES,      \* the static counter of run_cycle's stopped branch
    ie,               \* Bus.ie   (0xFFFF)
    if_,              \* Bus.if_  (0xFF0F)
    hram,             \* Bus.high_ram, the bytes written so far (others 0xFF)
    timer,            \* Bus.timer : Timer
    ppu,              \* Bus.ppu : Ppu (timing state)
    serial,           \* Bus.serial : Serial
    kind,             \* observation: which branch the last step took
    op,               \* observation: opcode retired by the last step (or -1)
    prev,             \* observation: what the step before the last one was
    ret,              \* observation: value returned by the last run_cycle
    fed,              \* observation: cycles the last step handed to each peripheral
    serviced,         \* observation: the IF bit the last step dispatched (0: none)
    pre,              \* observation: the state fields as the last step began
    irq,              \* observation: bitmask returned by the last Ppu::update_ly
    total,            \* observation: cycles delivered to the display since it was last off
    steps,            \* observation: number of steps / operations taken so far
    af_in,            \* SpecReg: the 16-bit input of set_af
    af_out,           \* SpecReg: get_af() after set_af(af_in), or -1 before the call
    bus,              \* Bus: cartridge, video RAM, work RAM, sprite memory, LCD status
    fault,            \* observation: the last access panicked
    overflow_checks,  \* the build: integer-overflow checks compiled in or not
    sink,             \* observation: the bytes the serial port has printed
    apu,              \* Apu: registers, frame sequencer, channels
    since,            \* observation: per square channel, the T-cycles ticked since
                      \* its trigger and the frequency it was triggered with
    chan              \* the channel of sample batches between the frame loop and
                      \* the audio callback: the queue, and whether the receiver lives

vars == <<reg, m, halted, ime, enable_ime_next, stopped, STOP_CYCLES, ie, if_,
          hram, timer, ppu, serial, kind, op, prev, ret, fed, serviced, pre, irq,
          total,
          steps, af_in, af_out, bus, fault, overflow_checks, sink, apu,
          since, chan>>

----------------------------------------------------------------------------
(* Bounds of the model (not program constants).                            *)

\* steps of the processor observed from each initial state
MaxSteps == 3
\* operations on the timer observed from each initial state
MaxTimerOps == 4

----------------------------------------------------------------------------
(* Fixed-width arithmetic.                                                 *)

Byte == 0..255

\* the element of a one-element set; with a set constructor it names an
\* intermediate value, as in The({F(x) : x \in {e}})
The(S) == CHOOSE r \in S : TRUE

Pow2(n) == 2^n

\* bit n of x
Bit(x, n) == (x \div Pow2(n)) % 2

RECURSIVE AndN(_, _, _)
AndN(x, y, n) ==
    IF n = 0 \/ x = 0 \/ y = 0 THEN 0
    ELSE (x % 2) * (y % 2) + 2 * AndN(x \div 2, y \div 2, n - 1)

\* x & y on 16-bit operands
And(x, y) == The({AndN(a, b, 16) : a \in {x}, b \in {y}})

\* x | y
Or(x, y) == x + y - And(x, y)

\* x ^ y
Xor(x, y) == x + y - 2 * And(x, y)

\* x & !mask on 8-bit operands
AndNot(x, mask) == x - And(x, mask)

Min(x, y) == IF x < y THEN x ELSE y

\* Option<u16>
None == <<>>

Some(x) == <<x>>

----------------------------------------------------------------------------
(* register.rs                                                             *)

\* u8::from(Flags)
FlagZero == 128

FlagNegative == 64

FlagHalfCarry == 32

FlagCarry == 16

Flags == {FlagZero, FlagNegative, FlagHalfCarry, FlagCarry}

\* Register::new
RegisterNew ==
    [a |-> 1, f |-> FlagZero, b |-> 0, c |-> 19, d |-> 0, e |-> 216,
     h |-> 1, l |-> 77, sp |-> 65534, pc |-> 256]

\* Register::get_af
get_af(r) == r.a * 256 + r.f

\* Register::set_af
set_af(r, value) ==
    [r EXCEPT !.a = And(value, 65280) \div 256, !.f = And(value, 255)]

----------------------------------------------------------------------------
(* timer.rs                                                                *)

\* Timer::new
TimerNew ==
    [div |-> 0, tima |-> 0, tma |-> 0, tac |-> 0, div_counter |-> 0,
     interrupt |-> FALSE, tima_reload_delay |-> None]

\* Timer::timer_enabled
timer_enabled(t) == And(t.tac, 4) # 0

\* a variant of get_div_bit with the fastest tap on bit 5
get_div_bit_slow_tap(tac) ==
    CASE And(tac, 3) = 0 -> 9
      [] And(tac, 3) = 1 -> 5
      [] And(tac, 3) = 2 -> 5
      [] And(tac, 3) = 3 -> 7

\* Timer::get_div_bit
get_div_bit(tac) ==
    CASE And(tac, 3) = 0 -> 9
      [] And(tac, 3) = 1 -> 3
      [] And(tac, 3) = 2 -> 5
      [] And(tac, 3) = 3 -> 7

\* the event counter's increment on a falling edge, with its overflow
tima_increment(t) ==
    IF t.tima = 255
    THEN [t EXCEPT !.tima = 0, !.tima_reload_delay = Some(4)]
    ELSE [t EXCEPT !.tima = (t.tima + 1) % 256]

\* the in-flight reload of one M-cycle of Timer::update
tima_reload(t) ==
    IF t.tima_reload_delay # None
    THEN LET delay == t.tima_reload_delay[1]
             left == delay - Min(delay, 4)
         IN IF left = 0
            THEN [t EXCEPT !.tima = t.tma, !.interrupt = TRUE,
                           !.tima_reload_delay = None]
            ELSE [t EXCEPT !.tima_reload_delay = Some(left)]
    ELSE t

\* one iteration (one M-cycle) of the loop of Timer::update
timer_cycle(t) ==
    LET old_div_counter == t.div_counter
        new_div_counter == (t.div_counter + 4) % 65536
        t1 == [t EXCEPT !.div_counter = new_div_counter,
                        !.div = new_div_counter \div 256]
        bit == get_div_bit(t1.tac)
        old_bit == Bit(old_div_counter, bit) # 0
        new_bit == Bit(new_div_counter, bit) # 0
        t2 == IF timer_enabled(t1) /\ old_bit /\ ~new_bit
              THEN tima_increment(t1)
              ELSE t1
    IN tima_reload(t2)

\* Timer::update
RECURSIVE timer_update(_, _)
timer_update(t, m_cycles) ==
    IF m_cycles = 0
    THEN t
    ELSE The({timer_update(t1, m_cycles - 1) : t1 \in {timer_cycle(t)}})

\* a variant of the divider write that ignores the enable bit
timer_write_div_unconditional(t) ==
    LET bit == get_div_bit(t.tac)
        old_bit == Bit(t.div_counter, bit) # 0
        t1 == [t EXCEPT !.div_counter = 0, !.div = 0]
    IN IF old_bit THEN tima_increment(t1) ELSE t1

\* Timer::write_byte 0xFF04
timer_write_div(t) ==
    LET bit == get_div_bit(t.tac)
        old_bit == Bit(t.div_counter, bit) # 0
        t1 == [t EXCEPT !.div_counter = 0, !.div = 0]
        new_bit == FALSE
    IN IF timer_enabled(t1) /\ old_bit /\ ~new_bit
       THEN tima_increment(t1)
       ELSE t1

\* Timer::write_byte 0xFF05
timer_write_tima(t, value) ==
    [t EXCEPT !.tima = value, !.tima_reload_delay = None]

\* Timer::write_byte 0xFF06
timer_write_tma(t, value) == [t EXCEPT !.tma = value]

\* the mode-register write looking at the enable bit alone
timer_write_tac_enable_only(t, value) ==
    LET old_bit == Bit(t.div_counter, get_div_bit(t.tac)) # 0
        new_tac == And(value, 7)
        t1 == IF timer_enabled(t) /\ old_bit /\ And(new_tac, 4) = 0
              THEN tima_increment(t)
              ELSE t
    IN [t1 EXCEPT !.tac = new_tac]

\* Timer::write_byte 0xFF07
timer_write_tac(t, value) ==
    LET old_bit == Bit(t.div_counter, get_div_bit(t.tac)) # 0
        old_enabled == timer_enabled(t)
        new_tac == And(value, 7)
        new_bit == Bit(t.div_counter, get_div_bit(new_tac)) # 0
        new_enabled == And(new_tac, 4) # 0
        t1 == IF old_enabled /\ old_bit /\ (~new_enabled \/ ~new_bit)
              THEN tima_increment(t)
              ELSE t
    IN [t1 EXCEPT !.tac = new_tac]

\* Timer::write_byte
timer_write_byte(t, addr, value) ==
    CASE addr = 65284 -> timer_write_div(t)
      [] addr = 65285 -> timer_write_tima(t, value)
      [] addr = 65286 -> timer_write_tma(t, value)
      [] addr = 65287 -> timer_write_tac(t, value)

\* Timer::read_byte
timer_read_byte(t, addr) ==
    CASE addr = 65284 -> t.div
      [] addr = 65285 -> t.tima
      [] addr = 65286 -> t.tma
      [] addr = 65287 -> t.tac

----------------------------------------------------------------------------
(* ppu.rs : display timing.  render_scanline writes only the frame buffer, *)
(* the sprite selection and the window line counter, none of which the     *)
(* timing state below reads.                                               *)

HBLANK == 0

VBLANK == 1

OAM_SCAN == 2

PIXEL_TRANSFER == 3

\* Ppu::new
PpuNew ==
    [mode |-> 0, ly |-> 0, ly_cycles |-> 0, lyc |-> 0, stat |-> 133,
     lcdc |-> 145, wy |-> 0, wx |-> 0, window_line_counter |-> 0,
     scanline_sprites |-> <<>>, video_ram |-> <<>>, oam |-> <<>>]

\* a memory with the byte at index i replaced
MapPut(mem, i, v) ==
    [a \in DOMAIN mem \cup {i} |-> IF a = i THEN v ELSE mem[a]]

\* video_ram and oam as the bytes written so far; Ppu::new fills video_ram
\* with 0x00 and oam with 0xFF
VramGet(mem, i) == IF i \in DOMAIN mem THEN mem[i] ELSE 0

OamGet(mem, i) == IF i \in DOMAIN mem THEN mem[i] ELSE 255

\* u8::saturating_sub
saturating_sub(x, y) == IF x < y THEN 0 ELSE x - y

MAX_OAM_ENTRIES == 40

\* the test of Ppu::oam_scan on entry i: its vertical extent covers ly
sprite_on_line(p, i, sprite_height) ==
    LET sprite_y == OamGet(p.oam, i * 4) - 16
    IN sprite_y <= p.ly /\ sprite_y + sprite_height > p.ly

\* the loop of oam_scan without its limit of 10
RECURSIVE oam_scan_all(_, _, _, _)
oam_scan_all(p, sprite_height, i, selected) ==
    IF i >= MAX_OAM_ENTRIES THEN selected
    ELSE IF sprite_on_line(p, i, sprite_height)
    THEN oam_scan_all(p, sprite_height, i + 1, Append(selected, i))
    ELSE oam_scan_all(p, sprite_height, i + 1, selected)

\* the loop of Ppu::oam_scan from entry i on
RECURSIVE oam_scan_from(_, _, _, _)
oam_scan_from(p, sprite_height, i, selected) ==
    IF i >= MAX_OAM_ENTRIES THEN selected
    ELSE IF sprite_on_line(p, i, sprite_height)
    THEN IF Len(selected) + 1 >= 10
         THEN Append(selected, i)
         ELSE oam_scan_from(p, sprite_height, i + 1, Append(selected, i))
    ELSE oam_scan_from(p, sprite_height, i + 1, selected)

\* oam_scan selecting every sprite on the line
oam_scan_unlimited(p) ==
    IF And(p.lcdc, 2) = 0 THEN <<>>
    ELSE oam_scan_all(p, IF And(p.lcdc, 4) # 0 THEN 16 ELSE 8, 0, <<>>)

\* Ppu::oam_scan : the sprites selected for the line ly
oam_scan(p) ==
    IF And(p.lcdc, 2) = 0 THEN <<>>
    ELSE oam_scan_from(p, IF And(p.lcdc, 4) # 0 THEN 16 ELSE 8, 0, <<>>)

\* the pixel columns of a scanline
Columns == 0..159

\* render_scanline counting a window line whatever wy is
render_scanline_any_line(p) ==
    LET window_drawn ==
            /\ And(p.lcdc, 1) # 0
            /\ And(p.lcdc, 32) # 0
            /\ \E x \in Columns : x >= saturating_sub(p.wx, 7)
    IN IF window_drawn
       THEN [p EXCEPT !.scanline_sprites = oam_scan(p),
                      !.window_line_counter = (@ + 1) % 256]
       ELSE [p EXCEPT !.scanline_sprites = oam_scan(p)]

\* Ppu::render_scanline, the sprite selection and the window line counter;
\* the frame buffer line it writes is accounted for by the field rendered of the scanline step.  The
\* counter is a u8: the increment at 255 wraps in a build without overflow
\* checks and panics in one with them; no start of this model is within
\* reach of 255.
render_scanline(p) ==
    LET window_drawn ==
            /\ And(p.lcdc, 1) # 0
            /\ And(p.lcdc, 32) # 0
            /\ p.ly >= p.wy
            /\ \E x \in Columns : x >= saturating_sub(p.wx, 7)
    IN IF window_drawn
       THEN [p EXCEPT !.scanline_sprites = oam_scan(p),
                      !.window_line_counter = (@ + 1) % 256]
       ELSE [p EXCEPT !.scanline_sprites = oam_scan(p)]

\* the LCD-enable bit of the control register
lcd_enabled(p) == And(p.lcdc, 128) # 0

\* the mode selection requesting the interrupt whenever the enable bit is set
ppu_select_mode_level(p) ==
    IF p.ly >= 144
    THEN [ppu |-> [p EXCEPT !.mode = VBLANK],
          bitmask |-> IF And(p.stat, 16) # 0 THEN 2 ELSE 0]
    ELSE IF p.ly_cycles < 80
    THEN [ppu |-> [p EXCEPT !.mode = OAM_SCAN],
          bitmask |-> IF And(p.stat, 32) # 0 THEN 2 ELSE 0]
    ELSE IF p.ly_cycles < 252
    THEN [ppu |-> [p EXCEPT !.mode = PIXEL_TRANSFER], bitmask |-> 0]
    ELSE [ppu |-> [p EXCEPT !.mode = HBLANK],
          bitmask |-> IF And(p.stat, 8) # 0 THEN 2 ELSE 0]

\* the mode selection of Ppu::update_ly, with the lcd-status request it raises
ppu_select_mode(p) ==
    LET mode_before == p.mode
    IN IF p.ly >= 144
       THEN [ppu |-> [p EXCEPT !.mode = VBLANK],
             bitmask |-> IF mode_before # VBLANK /\ And(p.stat, 16) # 0
                         THEN 2 ELSE 0]
       ELSE IF p.ly_cycles < 80
       THEN [ppu |-> [p EXCEPT !.mode = OAM_SCAN],
             bitmask |-> IF mode_before # OAM_SCAN /\ And(p.stat, 32) # 0
                         THEN 2 ELSE 0]
       ELSE IF p.ly_cycles < 252
       THEN [ppu |-> [p EXCEPT !.mode = PIXEL_TRANSFER], bitmask |-> 0]
       ELSE [ppu |-> [p EXCEPT !.mode = HBLANK],
             bitmask |-> IF mode_before # HBLANK /\ And(p.stat, 8) # 0
                         THEN 2 ELSE 0]

\* a variant of the scanline step that wraps one line late
ppu_next_line_late_wrap(p, bitmask) ==
    LET ly1 == (p.ly + 1) % 256
        ly2 == IF ly1 > 154 THEN 0 ELSE ly1
        b1 == IF ly2 = 144 THEN Or(bitmask, 1) ELSE bitmask
        hit == ly2 = p.lyc
        stat2 == IF hit THEN Or(p.stat, 4) ELSE AndNot(p.stat, 4)
        b2 == IF hit /\ And(stat2, 64) # 0 THEN Or(b1, 2) ELSE b1
        p1 == IF p.ly < 144 THEN render_scanline(p) ELSE p
    IN [ppu |-> [p1 EXCEPT !.ly_cycles = p.ly_cycles - 456, !.ly = ly2,
                           !.stat = stat2,
                           !.window_line_counter =
                               IF ly1 > 154 THEN 0 ELSE @],
        bitmask |-> b2,
        rendered |-> IF p.ly < 144 THEN 1 ELSE 0]

\* one iteration of the scanline loop of Ppu::update_ly
ppu_next_line(p, bitmask) ==
    LET ly1 == (p.ly + 1) % 256
        ly2 == IF ly1 > 153 THEN 0 ELSE ly1
        b1 == IF ly2 = 144 THEN Or(bitmask, 1) ELSE bitmask
        hit == ly2 = p.lyc
        stat2 == IF hit THEN Or(p.stat, 4) ELSE AndNot(p.stat, 4)
        b2 == IF hit /\ And(stat2, 64) # 0 THEN Or(b1, 2) ELSE b1
        p1 == IF p.ly < 144 THEN render_scanline(p) ELSE p
    IN [ppu |-> [p1 EXCEPT !.ly_cycles = p.ly_cycles - 456, !.ly = ly2,
                           !.stat = stat2,
                           !.window_line_counter =
                               IF ly1 > 153 THEN 0 ELSE @],
        bitmask |-> b2,
        rendered |-> IF p.ly < 144 THEN 1 ELSE 0]

\* the scanline loop of Ppu::update_ly
RECURSIVE ppu_line_loop(_, _)
ppu_line_loop(p, bitmask) ==
    IF p.ly_cycles >= 456
    THEN The({The({[r EXCEPT !.rendered = @ + n.rendered] :
                       r \in {ppu_line_loop(n.ppu, n.bitmask)}}) :
                  n \in {ppu_next_line(p, bitmask)}})
    ELSE [ppu |-> p, bitmask |-> bitmask, rendered |-> 0]

\* update_ly running the scanline loop before it looks at the LCD-enable bit
ppu_update_ly_off_late(p, cycles) ==
    LET p1 == [p EXCEPT !.ly_cycles = p.ly_cycles + cycles]
    IN The({IF ~lcd_enabled(p1)
            THEN [r EXCEPT !.ppu.ly = 0, !.ppu.ly_cycles = 0, !.ppu.mode = 0,
                           !.ppu.stat = AndNot(r.ppu.stat, 4)]
            ELSE r :
                r \in {The({ppu_line_loop(sel.ppu, sel.bitmask) :
                                sel \in {ppu_select_mode(p1)}})}})

\* Ppu::update_ly : the new timing state and the returned interrupt bitmask
ppu_update_ly(p, cycles) ==
    LET p1 == [p EXCEPT !.ly_cycles = p.ly_cycles + cycles]
    IN IF ~lcd_enabled(p1)
       THEN [ppu |-> [p1 EXCEPT !.ly = 0, !.ly_cycles = 0, !.mode = 0,
                                !.stat = AndNot(p1.stat, 4)],
             bitmask |-> 0, rendered |-> 0]
       ELSE The({ppu_line_loop(sel.ppu, sel.bitmask) :
                     sel \in {ppu_select_mode(p1)}})

\* Ppu::write_byte, the registers of the timing state
ppu_write_byte(p, addr, value) ==
    CASE addr \in 32768..40959 ->
             IF p.mode = PIXEL_TRANSFER /\ And(p.lcdc, 128) # 0 THEN p
             ELSE [p EXCEPT !.video_ram = MapPut(@, addr - 32768, value)]
      [] addr \in 65024..65183 ->
             IF p.mode \in {OAM_SCAN, PIXEL_TRANSFER} /\ And(p.lcdc, 128) # 0
             THEN p
             ELSE [p EXCEPT !.oam = MapPut(@, addr - 65024, value)]
      [] addr = 65344 -> [p EXCEPT !.lcdc = value]
      [] addr = 65345 -> [p EXCEPT !.stat = And(value, 124)]
      [] addr = 65349 -> [p EXCEPT !.lyc = value]
      [] addr = 65354 -> [p EXCEPT !.wy = value]
      [] addr = 65355 -> [p EXCEPT !.wx = value]

\* Ppu::read_byte, the registers of the timing state
ppu_read_byte(p, addr) ==
    CASE addr \in 32768..40959 ->
             IF p.mode = PIXEL_TRANSFER /\ And(p.lcdc, 128) # 0 THEN 255
             ELSE VramGet(p.video_ram, addr - 32768)
      [] addr \in 65024..65183 ->
             IF p.mode \in {OAM_SCAN, PIXEL_TRANSFER} /\ And(p.lcdc, 128) # 0
             THEN 255
             ELSE OamGet(p.oam, addr - 65024)
      [] addr = 65344 -> p.lcdc
      [] addr = 65345 -> Or(Or(128, p.stat), p.mode)
      [] addr = 65348 -> p.ly
      [] addr = 65349 -> p.lyc
      [] addr = 65354 -> p.wy
      [] addr = 65355 -> p.wx

----------------------------------------------------------------------------
(* serial.rs                                                               *)

\* Serial::new
SerialNew ==
    [data |-> 0, control |-> 0, transfer_in_progress |-> FALSE,
     transfer_cycles |-> 0]

\* Serial::write_byte
serial_write_byte(s, addr, value) ==
    CASE addr = 65281 -> [s EXCEPT !.data = value]
      [] addr = 65282 ->
           IF And(value, 129) = 129
           THEN [s EXCEPT !.control = AndNot(value, 128)]
           ELSE [s EXCEPT !.control = value]

\* Serial::write_byte, the bytes it prints to standard output
serial_printed(s, addr, value) ==
    IF addr = 65282 /\ And(value, 129) = 129 THEN <<s.data>> ELSE <<>>

\* Serial::step : the new state and whether the serial interrupt is signalled
serial_step(s, cycles) ==
    IF s.transfer_in_progress
    THEN LET left == IF s.transfer_cycles > cycles
                     THEN s.transfer_cycles - cycles ELSE 0
         IN IF left = 0
            THEN [serial |-> [s EXCEPT !.transfer_cycles = 0,
                                       !.transfer_in_progress = FALSE,
                                       !.control = 0],
                  done |-> TRUE]
            ELSE [serial |-> [s EXCEPT !.transfer_cycles = left],
                  done |-> FALSE]
    ELSE [serial |-> s, done |-> FALSE]

----------------------------------------------------------------------------
(* bus.rs : the registers and memory the stepping loop reads and writes.   *)
(* A machine state s is the record of the processor's and the bus's fields.*)

\* the wrapping u16 addition
Wrap16(x) == x % 65536

\* Bus::read_byte.  ext is the byte held at addr when addr is outside the
\* regions this model holds (cartridge, display RAM, work RAM, other I/O).
bus_read_byte(s, addr, ext) ==
    CASE addr \in 65281..65282 ->
             IF addr = 65281 THEN s.serial.data ELSE s.serial.control
      [] addr \in 65284..65287 -> timer_read_byte(s.timer, addr)
      [] addr = 65295 -> And(s.if_, 31)
      [] addr \in 65408..65534 ->
             IF addr \in DOMAIN s.hram THEN s.hram[addr] ELSE 255
      [] addr = 65535 -> And(s.ie, 31)
      [] OTHER -> ext

\* Bus::write_byte
bus_write_byte(s, addr, value) ==
    CASE addr \in 65281..65282 ->
             [s EXCEPT !.serial = serial_write_byte(s.serial, addr, value)]
      [] addr \in 65284..65287 ->
             [s EXCEPT !.timer = timer_write_byte(s.timer, addr, value)]
      [] addr = 65295 -> [s EXCEPT !.if_ = And(value, 31)]
      [] addr \in 65408..65534 ->
             [s EXCEPT !.hram = [a \in DOMAIN s.hram \cup {addr} |->
                                    IF a = addr THEN value ELSE s.hram[a]]]
      [] addr = 65535 -> [s EXCEPT !.ie = And(value, 31)]
      [] OTHER -> s

\* Bus::read_word
bus_read_word(s, addr, ext_lo, ext_hi) ==
    bus_read_byte(s, addr, ext_lo)
        + 256 * bus_read_byte(s, Wrap16(addr + 1), ext_hi)

\* Bus::write_word
bus_write_word(s, addr, value) ==
    The({bus_write_byte(s1, Wrap16(addr + 1), value \div 256) :
             s1 \in {bus_write_byte(s, addr, And(value, 255))}})

----------------------------------------------------------------------------
(* cartridge.rs                                                            *)

\* the result of an access: ok is FALSE when the access panics
Ok(v) == [ok |-> TRUE, value |-> v]

Panic == [ok |-> FALSE, value |-> 0]

\* byte i of the cartridge image: the type byte at 0x0147, elsewhere a
\* pattern that differs from one address to the next
RomImage(c, i) == IF i = 327 THEN c.header_type ELSE i % 256

\* Cartridge::load : the image of c_len bytes with the given type byte
cartridge_load(header_type, c_len) ==
    [header_type |-> header_type,
     len |-> c_len,
     mbc_type |-> CASE header_type = 0 -> "RomOnly"
                    [] header_type \in 1..3 -> "MBC1"
                    [] header_type \in 5..6 -> "MBC2"
                    [] header_type \in 15..19 -> "MBC3"
                    [] OTHER -> "RomOnly",
     rom_bank |-> 1, ram_bank |-> 0, banking_mode |-> 0]

\* self.data[i] : a panic when i is outside the image
cartridge_index(c, i) == IF i < c.len THEN Ok(RomImage(c, i)) ELSE Panic

\* self.data.get(i).copied().unwrap_or(0xFF)
cartridge_get(c, i) == IF i < c.len THEN Ok(RomImage(c, i)) ELSE Ok(255)

\* the switchable bank as read_byte selects it
cartridge_bank(c, mask) ==
    The({IF b = 0 THEN 1 ELSE b : b \in {And(c.rom_bank, mask)}})

\* Cartridge::read_byte
cartridge_read_byte(c, addr) ==
    CASE c.mbc_type = "RomOnly" -> cartridge_index(c, addr)
      [] c.mbc_type # "RomOnly" /\ addr \in 0..16383 -> cartridge_index(c, addr)
      [] c.mbc_type # "RomOnly" /\ addr \in 16384..32767 ->
           LET mask == CASE c.mbc_type = "MBC1" -> 31
                         [] c.mbc_type = "MBC2" -> 15
                         [] c.mbc_type = "MBC3" -> 127
           IN cartridge_get(c, cartridge_bank(c, mask) * 16384 + (addr - 16384))
      [] OTHER -> Ok(255)

\* Cartridge::write_byte
cartridge_write_byte(c, addr, value) ==
    CASE c.mbc_type = "MBC1" /\ addr \in 8192..16383 ->
           The({[c EXCEPT !.rom_bank = IF And(b, 31) = 0
                                       THEN Or(And(b, 224), 1) ELSE b] :
                   b \in {Or(And(c.rom_bank, 96), And(value, 31))}})
      [] c.mbc_type = "MBC1" /\ addr \in 16384..24575 ->
           IF c.banking_mode = 0
           THEN [c EXCEPT !.rom_bank =
                     Or(And(c.rom_bank, 31), (And(value, 3) * 32) % 256)]
           ELSE [c EXCEPT !.ram_bank = And(value, 3)]
      [] c.mbc_type = "MBC1" /\ addr \in 24576..32767 ->
           [c EXCEPT !.banking_mode = And(value, 1)]
      [] c.mbc_type = "MBC2" /\ addr \in 0..16383 ->
           [c EXCEPT !.rom_bank = IF And(value, 15) = 0 THEN 1
                                  ELSE And(value, 15)]
      [] c.mbc_type = "MBC3" /\ addr \in 8192..16383 ->
           [c EXCEPT !.rom_bank = IF And(value, 127) = 0 THEN 1
                                  ELSE And(value, 127)]
      [] c.mbc_type = "MBC3" /\ addr \in 16384..24575 ->
           [c EXCEPT !.ram_bank = And(value, 3)]
      [] OTHER -> c

----------------------------------------------------------------------------
(* bus.rs : the whole address space.  Here a machine state s also holds    *)
(* the cartridge, the RAMs, the sprite memory and the LCD status fields.   *)

\* a RAM as the bytes written so far; Bus::new fills the RAMs with 0xFF
MapGet(mem, i) == IF i \in DOMAIN mem THEN mem[i] ELSE 255

\* Bus::new, the fields other than the timer, the serial port, IF, IE and
\* high RAM
BusNew(c) ==
    [rom |-> c, video_ram |-> <<>>, working_ram |-> <<>>,
     oam |-> [i \in 0..159 |-> 255],
     stat |-> 133, lyc |-> 0, ly |-> 0, ly_cycles |-> 0]

\* Bus::read_byte at 0xFF41
bus_read_stat(s) ==
    LET mode == IF s.ly >= 144 THEN 1
                ELSE IF s.ly_cycles < 80 THEN 2
                ELSE IF s.ly_cycles < 204 THEN 3
                ELSE 0
    IN Or(Or(And(s.stat, 252), mode), IF s.ly = s.lyc THEN 4 ELSE 0)

\* Bus::read_byte over every address
bus_read(s, addr) ==
    CASE addr \in 0..32767 -> cartridge_read_byte(s.rom, addr)
      [] addr \in 32768..40959 -> Ok(MapGet(s.video_ram, addr % 8192))
      [] addr \in 40960..49151 -> cartridge_read_byte(s.rom, addr)
      [] addr \in 49152..57343 -> Ok(MapGet(s.working_ram, addr % 8192))
      [] addr \in 57344..65023 ->
           Ok(MapGet(s.working_ram, (addr - 8192) % 8192))
      [] addr \in 65024..65183 -> Ok(s.oam[addr - 65024])
      [] addr \in 65184..65279 -> Ok(0)
      [] addr = 65280 -> Ok(255)
      [] addr \in 65296..65318 -> Ok(0)
      [] addr = 65345 -> Ok(bus_read_stat(s))
      [] addr = 65348 -> Ok(144)
      [] addr = 65349 -> Ok(s.lyc)
      [] addr = 65344 -> Ok(145)
      [] addr = 65351 -> Ok(252)
      [] addr \in 65352..65353 -> Ok(255)
      [] OTHER -> Ok(bus_read_byte(s, addr, 0))

\* Bus::write_byte at 0xFF46 : the sprite-memory transfer
bus_dma(s, value) ==
    The({IF r.ok
         THEN [ok |-> TRUE, s |-> [s EXCEPT !.oam = [i \in 0..159 |-> r.value]]]
         ELSE [ok |-> FALSE, s |-> s] :
             r \in {bus_read(s, value * 256 + 1)}})

\* Bus::write_byte over every address
bus_write(s, addr, value) ==
    CASE addr \in 0..32767 \cup 40960..49151 ->
           [ok |-> TRUE,
            s |-> [s EXCEPT !.rom = cartridge_write_byte(s.rom, addr, value)]]
      [] addr \in 32768..40959 ->
           [ok |-> TRUE,
            s |-> [s EXCEPT !.video_ram =
                       MapPut(s.video_ram, addr % 8192, value)]]
      [] addr \in 49152..65023 ->
           [ok |-> TRUE,
            s |-> [s EXCEPT !.working_ram =
                       MapPut(s.working_ram, addr % 8192, value)]]
      [] addr \in 65024..65183 ->
           [ok |-> TRUE, s |-> [s EXCEPT !.oam[addr - 65024] = value]]
      [] addr \in 65184..65280 \cup 65296..65318 -> [ok |-> TRUE, s |-> s]
      [] addr = 65345 -> [ok |-> TRUE, s |-> [s EXCEPT !.stat = And(value, 124)]]
      [] addr = 65349 -> [ok |-> TRUE, s |-> [s EXCEPT !.lyc = value]]
      [] addr = 65350 -> bus_dma(s, value)
      [] OTHER -> [ok |-> TRUE, s |-> bus_write_byte(s, addr, value)]

\* `addr + 1` on u16 : with overflow checks compiled in it panics at
\* 0xFFFF, without them it wraps to 0
next_addr(addr, checks) ==
    IF addr = 65535 /\ checks THEN Panic ELSE Ok(Wrap16(addr + 1))

\* Bus::read_word over every address
bus_read_word_at(s, addr, checks) ==
    The({IF lo.ok /\ n.ok
         THEN The({IF hi.ok THEN Ok(lo.value + 256 * hi.value) ELSE Panic :
                      hi \in {bus_read(s, n.value)}})
         ELSE Panic :
             lo \in {bus_read(s, addr)},
             n \in {next_addr(addr, checks)}})

\* Bus::write_word over every address
bus_write_word_at(s, addr, value, checks) ==
    The({IF w.ok /\ n.ok
         THEN bus_write(w.s, n.value, value \div 256)
         ELSE [ok |-> FALSE, s |-> w.s] :
             w \in {bus_write(s, addr, value % 256)},
             n \in {next_addr(addr, checks)}})

----------------------------------------------------------------------------
(* apu.rs : registers, frame sequencer and channels.  The resampling       *)
(* buffers and their clock t_clock are the output side and are left out.   *)

\* DUTY_TABLE
DUTY_TABLE ==
    << <<0, 0, 0, 0, 0, 0, 0, 1>>,
       <<0, 0, 0, 0, 0, 0, 1, 1>>,
       <<0, 0, 0, 0, 1, 1, 1, 1>>,
       <<1, 1, 1, 1, 1, 1, 0, 0>> >>

\* x >> n
Shr(x, n) == x \div Pow2(n)

\* SquareChannel::new
SquareChannelNew ==
    [duty_cycle |-> 0, length_load |-> 0, length_timer |-> 0,
     initial_volume |-> 0, env_add_mode |-> FALSE, env_period |-> 0,
     env_timer |-> 0, freq_low |-> 0, freq_high |-> 0,
     length_enable |-> FALSE, enabled |-> FALSE, dac_enabled |-> FALSE,
     freq_timer |-> 0, duty_position |-> 0, current_volume |-> 0,
     last_amp |-> 0, sweep_period |-> 0, sweep_shift |-> 0,
     sweep_negate |-> FALSE, sweep_timer |-> 0, sweep_enabled |-> FALSE,
     shadow_freq |-> 0]

\* WaveChannel::new
WaveChannelNew ==
    [dac_enabled |-> FALSE, length_load |-> 0, length_timer |-> 0,
     length_enable |-> FALSE, volume_code |-> 0, freq_low |-> 0,
     freq_high |-> 0, enabled |-> FALSE, freq_timer |-> 0, position |-> 0,
     sample_buffer |-> 0, wave_ram |-> [i \in 0..15 |-> 0], last_amp |-> 0]

\* Apu::new
ApuNew ==
    [enabled |-> FALSE, nr50 |-> 0, nr51 |-> 0, ch1 |-> SquareChannelNew,
     ch2 |-> SquareChannelNew, ch3 |-> WaveChannelNew,
     frame_sequencer_counter |-> 0, frame_sequencer_step |-> 0]

\* (freq_high << 8) | freq_low
channel_freq(ch) == ch.freq_high * 256 + ch.freq_low

\* the amplitude SquareChannel::tick computes
square_amplitude(ch) ==
    IF ch.enabled /\ ch.dac_enabled
    THEN DUTY_TABLE[ch.duty_cycle + 1][ch.duty_position + 1]
             * ch.current_volume * 256
    ELSE 0

\* SquareChannel::tick reloading the timer as the wave channel does
square_tick_half_period(ch) ==
    The({The({[c2 EXCEPT !.last_amp = square_amplitude(c2)] :
                 c2 \in {IF c1.freq_timer = 0
                         THEN [c1 EXCEPT
                                 !.freq_timer = (2048 - channel_freq(c1)) * 2,
                                 !.duty_position = (c1.duty_position + 1) % 8]
                         ELSE c1}}) :
            c1 \in {IF ch.freq_timer > 0
                    THEN [ch EXCEPT !.freq_timer = ch.freq_timer - 1]
                    ELSE ch}})

\* SquareChannel::tick
square_tick(ch) ==
    The({The({[c2 EXCEPT !.last_amp = square_amplitude(c2)] :
                 c2 \in {IF c1.freq_timer = 0
                         THEN [c1 EXCEPT
                                 !.freq_timer = (2048 - channel_freq(c1)) * 4,
                                 !.duty_position = (c1.duty_position + 1) % 8]
                         ELSE c1}}) :
            c1 \in {IF ch.freq_timer > 0
                    THEN [ch EXCEPT !.freq_timer = ch.freq_timer - 1]
                    ELSE ch}})

\* SquareChannel::clock_length and WaveChannel::clock_length
clock_length(ch) ==
    IF ch.length_enable /\ ch.length_timer > 0
    THEN [ch EXCEPT !.length_timer = ch.length_timer - 1,
                    !.enabled = IF ch.length_timer = 1 THEN FALSE
                                ELSE ch.enabled]
    ELSE ch

\* SquareChannel::clock_envelope
clock_envelope(ch) ==
    IF ch.env_period = 0 THEN ch
    ELSE IF ch.env_timer > 1 THEN [ch EXCEPT !.env_timer = ch.env_timer - 1]
    ELSE [ch EXCEPT
            !.env_timer = ch.env_period,
            !.current_volume =
                IF ch.env_add_mode
                THEN (IF ch.current_volume < 15 THEN ch.current_volume + 1
                      ELSE ch.current_volume)
                ELSE (IF ch.current_volume > 0 THEN ch.current_volume - 1
                      ELSE ch.current_volume)]

\* the frequency a sweep step computes from the shadow frequency
sweep_new_freq(ch) ==
    IF ch.sweep_negate
    THEN ch.shadow_freq - Shr(ch.shadow_freq, ch.sweep_shift)
    ELSE ch.shadow_freq + Shr(ch.shadow_freq, ch.sweep_shift)

\* clock_sweep storing the new frequency whatever its size
clock_sweep_unchecked(ch) ==
    IF ch.sweep_enabled /\ ch.sweep_period > 0
    THEN IF ch.sweep_timer > 1
         THEN [ch EXCEPT !.sweep_timer = ch.sweep_timer - 1]
         ELSE The({IF ch.sweep_shift # 0
                   THEN [ch EXCEPT !.sweep_timer = ch.sweep_period,
                                   !.shadow_freq = new_freq,
                                   !.freq_low = new_freq % 256,
                                   !.freq_high = (new_freq \div 256) % 8]
                   ELSE [ch EXCEPT !.sweep_timer = ch.sweep_period] :
                      new_freq \in {sweep_new_freq(ch)}})
    ELSE ch

\* SquareChannel::clock_sweep
clock_sweep(ch) ==
    IF ch.sweep_enabled /\ ch.sweep_period > 0
    THEN IF ch.sweep_timer > 1
         THEN [ch EXCEPT !.sweep_timer = ch.sweep_timer - 1]
         ELSE The({IF new_freq > 2047
                   THEN [ch EXCEPT !.sweep_timer = ch.sweep_period,
                                   !.enabled = FALSE]
                   ELSE IF ch.sweep_shift # 0
                   THEN [ch EXCEPT !.sweep_timer = ch.sweep_period,
                                   !.shadow_freq = new_freq,
                                   !.freq_low = new_freq % 256,
                                   !.freq_high = (new_freq \div 256) % 8]
                   ELSE [ch EXCEPT !.sweep_timer = ch.sweep_period] :
                      new_freq \in {sweep_new_freq(ch)}})
    ELSE ch

\* WaveChannel::tick, the amplitude
wave_amplitude(ch) ==
    IF ch.enabled /\ ch.dac_enabled
    THEN Shr(ch.sample_buffer,
             CASE ch.volume_code = 0 -> 4
               [] ch.volume_code = 1 -> 0
               [] ch.volume_code = 2 -> 1
               [] ch.volume_code = 3 -> 2
               [] OTHER -> 4) * 256
    ELSE 0

\* WaveChannel::tick, the reload of the frequency timer
wave_reload(ch) ==
    The({[ch EXCEPT
            !.freq_timer = (2048 - channel_freq(ch)) * 2,
            !.position = p,
            !.sample_buffer = IF p % 2 = 0
                              THEN Shr(ch.wave_ram[p \div 2], 4)
                              ELSE ch.wave_ram[p \div 2] % 16] :
            p \in {(ch.position + 1) % 32}})

\* WaveChannel::tick
wave_tick(ch) ==
    The({The({[c2 EXCEPT !.last_amp = wave_amplitude(c2)] :
                 c2 \in {IF c1.freq_timer = 0 THEN wave_reload(c1) ELSE c1}}) :
            c1 \in {IF ch.freq_timer > 0
                    THEN [ch EXCEPT !.freq_timer = ch.freq_timer - 1]
                    ELSE ch}})

\* the frame sequencer clocking the envelopes on every step
apu_clock_envelope_every(a) ==
    [a EXCEPT !.frame_sequencer_counter = 0,
              !.frame_sequencer_step = (a.frame_sequencer_step + 1) % 8,
              !.ch1 = clock_envelope(a.ch1),
              !.ch2 = clock_envelope(a.ch2)]

\* Apu::step, the frame sequencer reaching 4_194_304 / 512 T-cycles
apu_clock(a) ==
    The({The({[a3 EXCEPT
                 !.frame_sequencer_counter = 0,
                 !.frame_sequencer_step = (a.frame_sequencer_step + 1) % 8,
                 !.ch1 = IF a.frame_sequencer_step = 7
                         THEN clock_envelope(a3.ch1) ELSE a3.ch1,
                 !.ch2 = IF a.frame_sequencer_step = 7
                         THEN clock_envelope(a3.ch2) ELSE a3.ch2] :
                 a3 \in {IF a.frame_sequencer_step \in {2, 6}
                         THEN [a2 EXCEPT !.ch1 = clock_sweep(a2.ch1)]
                         ELSE a2}}) :
            a2 \in {IF a.frame_sequencer_step % 2 = 0
                    THEN [a EXCEPT !.ch1 = clock_length(a.ch1),
                                   !.ch2 = clock_length(a.ch2),
                                   !.ch3 = clock_length(a.ch3)]
                    ELSE a}})

\* Apu::step, one T-cycle of the loop
apu_tick(a) ==
    The({[b EXCEPT !.ch1 = square_tick(b.ch1),
                   !.ch2 = square_tick(b.ch2),
                   !.ch3 = wave_tick(b.ch3)] :
            b \in {IF a.frame_sequencer_counter + 1 = 8192
                   THEN apu_clock(a)
                   ELSE [a EXCEPT !.frame_sequencer_counter =
                                      a.frame_sequencer_counter + 1]}})

RECURSIVE apu_ticks(_, _)
\* Apu::step, the loop over t_cycles
apu_ticks(a, n) ==
    IF n = 0 THEN a ELSE The({apu_ticks(b, n - 1) : b \in {apu_tick(a)}})

\* Apu::step ; t_cycles = cycles * 4 is a u8
apu_step(a, cycles) == apu_ticks(a, (cycles * 4) % 256)

\* the registers a powered-off synthesizer still answers for
apu_always_on(addr) == addr = 65318 \/ addr \in 65328..65343

\* Apu::read_byte
apu_read_byte(a, addr) ==
    IF ~a.enabled /\ ~apu_always_on(addr) THEN 255
    ELSE CASE addr = 65296 ->
                Or(128, Or((a.ch1.sweep_period * 16) % 256,
                           Or(IF a.ch1.sweep_negate THEN 8 ELSE 0,
                              a.ch1.sweep_shift)))
           [] addr = 65302 -> Or((a.ch2.duty_cycle * 64) % 256, 63)
           [] addr = 65303 ->
                Or((a.ch2.initial_volume * 16) % 256,
                   Or(IF a.ch2.env_add_mode THEN 8 ELSE 0, a.ch2.env_period))
           [] addr = 65304 -> 255
           [] addr = 65305 -> Or(191, IF a.ch2.length_enable THEN 64 ELSE 0)
           [] addr = 65316 -> a.nr50
           [] addr = 65317 -> a.nr51
           [] addr = 65318 ->
                112 + (IF a.enabled THEN 128 ELSE 0)
                    + (IF a.ch3.enabled THEN 4 ELSE 0)
                    + (IF a.ch2.enabled THEN 2 ELSE 0)
                    + (IF a.ch1.enabled THEN 1 ELSE 0)
           [] addr = 65306 -> Or(127, IF a.ch3.dac_enabled THEN 128 ELSE 0)
           [] addr = 65307 -> 255
           [] addr = 65308 -> Or(159, a.ch3.volume_code * 32)
           [] addr = 65309 -> 255
           [] addr = 65310 -> Or(191, IF a.ch3.length_enable THEN 64 ELSE 0)
           [] addr \in 65328..65343 -> a.ch3.wave_ram[addr - 65328]
           [] OTHER -> 255

\* Apu::write_byte at 0xFF12 / 0xFF17 : the envelope register
square_write_envelope(ch, value) ==
    [ch EXCEPT !.initial_volume = Shr(value, 4) % 16,
               !.env_add_mode = And(value, 8) # 0,
               !.env_period = value % 8,
               !.dac_enabled = And(value, 248) # 0,
               !.enabled = IF And(value, 248) # 0 THEN ch.enabled ELSE FALSE]

\* Apu::write_byte at 0xFF14 / 0xFF19 : the trigger both square channels share
square_trigger(ch) ==
    [ch EXCEPT !.enabled = TRUE,
               !.current_volume = ch.initial_volume,
               !.env_timer = ch.env_period,
               !.length_timer = IF ch.length_timer = 0 THEN 64
                                ELSE ch.length_timer,
               !.freq_timer = (2048 - channel_freq(ch)) * 4,
               !.duty_position = 0]

\* Apu::write_byte at 0xFF14 : what the trigger adds for the sweep unit
sweep_trigger(ch) ==
    [ch EXCEPT !.shadow_freq = channel_freq(ch),
               !.sweep_timer = IF ch.sweep_period > 0 THEN ch.sweep_period
                               ELSE 8,
               !.sweep_enabled = IF ch.sweep_period # 0 \/ ch.sweep_shift # 0
                                 THEN TRUE ELSE ch.sweep_enabled,
               !.enabled =
                   IF ch.sweep_shift # 0
                      /\ channel_freq(ch)
                           + Shr(channel_freq(ch), ch.sweep_shift) > 2047
                   THEN FALSE ELSE ch.enabled]

\* Apu::write_byte at 0xFF14 / 0xFF19 : length enable, frequency high bits
square_write_control(ch, value) ==
    [ch EXCEPT !.length_enable = And(value, 64) # 0,
               !.freq_high = value % 8]

\* Apu::write_byte at 0xFF1E
wave_write_control(ch, value) ==
    The({IF And(value, 128) # 0
         THEN [c EXCEPT !.enabled = IF c.dac_enabled THEN TRUE ELSE c.enabled,
                        !.length_timer = IF c.length_timer = 0
                                         THEN 256 - c.length_load
                                         ELSE c.length_timer,
                        !.freq_timer = (2048 - channel_freq(c)) * 2,
                        !.position = 0]
         ELSE c :
            c \in {[ch EXCEPT !.length_enable = And(value, 64) # 0,
                              !.freq_high = value % 8]}})

\* Apu::write_byte without the power check
apu_write_register(a, addr, value) ==
    CASE addr = 65296 ->
           [a EXCEPT !.ch1.sweep_period = Shr(value, 4) % 8,
                     !.ch1.sweep_negate = And(value, 8) # 0,
                     !.ch1.sweep_shift = value % 8]
      [] addr = 65297 ->
           [a EXCEPT !.ch1.duty_cycle = Shr(value, 6) % 4,
                     !.ch1.length_load = value % 64]
      [] addr = 65298 ->
           [a EXCEPT !.ch1 = square_write_envelope(a.ch1, value)]
      [] addr = 65299 -> [a EXCEPT !.ch1.freq_low = value]
      [] addr = 65300 ->
           The({IF And(value, 128) # 0 /\ c.dac_enabled
                THEN [a EXCEPT !.ch1 = sweep_trigger(square_trigger(c))]
                ELSE [a EXCEPT !.ch1 = c] :
                   c \in {square_write_control(a.ch1, value)}})
      [] addr = 65302 ->
           [a EXCEPT !.ch2.duty_cycle = Shr(value, 6) % 4,
                     !.ch2.length_load = value % 64]
      [] addr = 65303 ->
           [a EXCEPT !.ch2 = square_write_envelope(a.ch2, value)]
      [] addr = 65304 -> [a EXCEPT !.ch2.freq_low = value]
      [] addr = 65305 ->
           The({IF And(value, 128) # 0 /\ c.dac_enabled
                THEN [a EXCEPT !.ch2 = square_trigger(c)]
                ELSE [a EXCEPT !.ch2 = c] :
                   c \in {square_write_control(a.ch2, value)}})
      [] addr = 65306 -> [a EXCEPT !.ch3.dac_enabled = And(value, 128) # 0]
      [] addr = 65307 -> [a EXCEPT !.ch3.length_load = value]
      [] addr = 65308 -> [a EXCEPT !.ch3.volume_code = Shr(value, 5) % 4]
      [] addr = 65309 -> [a EXCEPT !.ch3.freq_low = value]
      [] addr = 65310 -> [a EXCEPT !.ch3 = wave_write_control(a.ch3, value)]
      [] addr = 65316 -> [a EXCEPT !.nr50 = value]
      [] addr = 65317 -> [a EXCEPT !.nr51 = value]
      [] addr = 65318 ->
           IF And(value, 128) = 0
           THEN [a EXCEPT !.enabled = FALSE, !.nr50 = 0, !.nr51 = 0]
           ELSE [a EXCEPT !.enabled = TRUE]
      [] addr \in 65328..65343 ->
           [a EXCEPT !.ch3.wave_ram[addr - 65328] = value]
      [] OTHER -> a

\* Apu::write_byte without its early return
apu_write_byte_unguarded(a, addr, value) == apu_write_register(a, addr, value)

\* Apu::write_byte
apu_write_byte(a, addr, value) ==
    IF ~a.enabled /\ ~apu_always_on(addr) THEN a
    ELSE apu_write_register(a, addr, value)

----------------------------------------------------------------------------
(* cpu.rs : flags, stack, interrupt controller, instructions.              *)

\* Cpu::reset_flags
reset_flags(s) == [s EXCEPT !.reg.f = 0]

\* set_flag storing the named bit alone
set_flag_alone(s, flag) == [s EXCEPT !.reg.f = flag]

\* Cpu::set_flag
set_flag(s, flag) == [s EXCEPT !.reg.f = And(Or(s.reg.f, flag), 240)]

\* Cpu::unset_flag
unset_flag(s, flag) == [s EXCEPT !.reg.f = AndNot(s.reg.f, flag)]

\* Cpu::flag_is_active
flag_is_active(s, flag) == And(s.reg.f, flag) = flag

\* Cpu::set_flag_on_if
set_flag_on_if(s, flag, condition) ==
    IF condition THEN set_flag(s, flag) ELSE unset_flag(s, flag)

\* Cpu::push_stack
push_stack(s, value) ==
    The({bus_write_word(s1, s1.reg.sp, v) :
             s1 \in {[s EXCEPT !.reg.sp = (s.reg.sp + 65534) % 65536]},
             v \in {value}})

\* Cpu::pop_stack : the value read; the caller advances sp with pop_sp
pop_value(s, ext_lo, ext_hi) == bus_read_word(s, s.reg.sp, ext_lo, ext_hi)

\* Cpu::pop_stack : sp after the pop
pop_sp(s) == [s EXCEPT !.reg.sp = Wrap16(s.reg.sp + 2)]

\* Cpu::read_byte : pc after fetching one byte
fetch(s) == [s EXCEPT !.reg.pc = Wrap16(s.reg.pc + 1)]

\* the vector and IF bit chosen by Cpu::handle_interrupts
interrupt_vector(pending) ==
    IF And(pending, 1) # 0 THEN [pc |-> 64, bit |-> 1]
    ELSE IF And(pending, 2) # 0 THEN [pc |-> 72, bit |-> 2]
    ELSE IF And(pending, 4) # 0 THEN [pc |-> 80, bit |-> 4]
    ELSE IF And(pending, 8) # 0 THEN [pc |-> 88, bit |-> 8]
    ELSE [pc |-> 96, bit |-> 16]

\* IE & IF as Cpu::handle_interrupts and Cpu::run_cycle read them
pending_of(s) == And(bus_read_byte(s, 65535, 0), bus_read_byte(s, 65295, 0))

\* Cpu::handle_interrupts : the new state and the returned flag
handle_interrupts(s, push_return) ==
    LET iflag == bus_read_byte(s, 65295, 0)
        pending == pending_of(s)
        s1 == [s EXCEPT !.halted = FALSE]
        s2 == IF s1.ime
              THEN [s1 EXCEPT !.ime = FALSE, !.enable_ime_next = FALSE]
              ELSE s1
        v == interrupt_vector(pending)
    IN IF pending # 0
       THEN The({[s |-> [s4 EXCEPT !.reg.pc = v.pc, !.m = 5],
                  handled |-> TRUE, bit |-> v.bit] :
                     s4 \in {IF push_return
                             THEN push_stack(s3, s3.reg.pc)
                             ELSE s3 :
                                 s3 \in {bus_write_byte(
                                             s2, 65295,
                                             AndNot(iflag, v.bit))}}})
       ELSE [s |-> s, handled |-> FALSE, bit |-> 0]

\* Cpu::nop (also the undefined opcodes)
nop(s) == [s EXCEPT !.m = 1]

\* Cpu::stop
stop(s) == fetch([s EXCEPT !.m = 2, !.stopped = TRUE])

\* Cpu::halt
halt(s) == [s EXCEPT !.m = 1, !.halted = TRUE]

\* Cpu::ei
ei(s) == [s EXCEPT !.m = 1, !.enable_ime_next = TRUE]

\* Cpu::di
di(s) == [s EXCEPT !.m = 1, !.ime = FALSE]

\* Cpu::reti
reti(s, ext_lo, ext_hi) ==
    The({[pop_sp(s) EXCEPT !.m = 4, !.reg.pc = value, !.ime = TRUE] :
             value \in {pop_value(s, ext_lo, ext_hi)}})

\* a variant of pop_af that hands the popped word to set_af unmasked
pop_af_unmasked(s, ext_lo, ext_hi) ==
    The({[pop_sp(s) EXCEPT !.m = 3, !.reg = set_af(pop_sp(s).reg, value)] :
             value \in {pop_value(s, ext_lo, ext_hi)}})

\* Cpu::pop_af
pop_af(s, ext_lo, ext_hi) ==
    The({[pop_sp(s) EXCEPT !.m = 3,
                           !.reg = set_af(pop_sp(s).reg, And(value, 65520))] :
             value \in {pop_value(s, ext_lo, ext_hi)}})

\* Cpu::push_af
push_af(s) == push_stack([s EXCEPT !.m = 4], get_af(s.reg))

\* Cpu::ccf
ccf(s) ==
    The({[s1 EXCEPT !.reg.f = And(Xor(s1.reg.f, 16), 240)] :
             s1 \in {unset_flag(unset_flag([s EXCEPT !.m = 1], FlagNegative),
                                FlagHalfCarry)}})

\* Cpu::scf
scf(s) ==
    unset_flag(unset_flag(set_flag([s EXCEPT !.m = 1], FlagCarry),
                          FlagNegative), FlagHalfCarry)

\* Cpu::inc_reg
inc_reg(s, register) ==
    LET result == (register + 1) % 256
    IN The({[s |-> set_flag_on_if(s2, FlagHalfCarry,
                                  And(register, 15) + 1 > 15),
             result |-> result] :
                s2 \in {unset_flag(s1, FlagNegative) :
                            s1 \in {set_flag_on_if(s, FlagZero, result = 0)}}})

\* Cpu::inc_a
inc_a(s) ==
    The({[r.s EXCEPT !.reg.a = r.result] :
             r \in {inc_reg([s EXCEPT !.m = 1], s.reg.a)}})

\* Cpu::dec_reg
dec_reg(s, register) ==
    LET result == (register + 255) % 256
    IN The({[s |-> set_flag_on_if(s2, FlagHalfCarry, And(register, 15) = 0),
             result |-> result] :
                s2 \in {set_flag(s1, FlagNegative) :
                           s1 \in {set_flag_on_if(s, FlagZero, result = 0)}}})

\* Cpu::dec_a
dec_a(s) ==
    The({[r.s EXCEPT !.reg.a = r.result] :
             r \in {dec_reg([s EXCEPT !.m = 1], s.reg.a)}})

\* the Zero, HalfCarry and Carry updates shared by the 8-bit ALU helpers,
\* applied in the order the helpers apply them
alu_flags(s, zero, half, carry) ==
    The({set_flag_on_if(s2, FlagCarry, carry) :
             s2 \in {set_flag_on_if(s1, FlagHalfCarry, half) :
                        s1 \in {set_flag_on_if(s, FlagZero, zero)}}})

\* daa without the correction of the high digit
daa_low_digit_only(s) ==
    LET n == flag_is_active(s, FlagNegative)
        h == flag_is_active(s, FlagHalfCarry)
        c == flag_is_active(s, FlagCarry)
        a == IF ~n
             THEN (IF h \/ And(s.reg.a, 15) > 9 THEN (s.reg.a + 6) % 256
                   ELSE s.reg.a)
             ELSE (IF h THEN (s.reg.a + 250) % 256 ELSE s.reg.a)
    IN [alu_flags(unset_flag([s EXCEPT !.m = 1], FlagHalfCarry),
                  a = 0, FALSE, c)
           EXCEPT !.reg.a = a]

\* Cpu::daa
daa(s) ==
    LET n == flag_is_active(s, FlagNegative)
        h == flag_is_active(s, FlagHalfCarry)
        c == flag_is_active(s, FlagCarry)
        a0 == s.reg.a
        a1 == IF ~n
              THEN (IF c \/ a0 > 153 THEN (a0 + 96) % 256 ELSE a0)
              ELSE (IF h THEN (a0 + 250) % 256 ELSE a0)
        a == IF ~n
             THEN (IF h \/ And(a1, 15) > 9 THEN (a1 + 6) % 256 ELSE a1)
             ELSE (IF c THEN (a1 + 160) % 256 ELSE a1)
        new_c == IF ~n /\ (c \/ a0 > 153) THEN TRUE ELSE c
    IN The({[s3 EXCEPT !.reg.a = a] :
               s3 \in {set_flag_on_if(s2, FlagCarry, new_c) :
                   s2 \in {unset_flag(s1, FlagHalfCarry) :
                       s1 \in {set_flag_on_if([s EXCEPT !.m = 1], FlagZero,
                                              a = 0)}}}})

\* Cpu::add_a
add_a(s, value) ==
    LET result == (s.reg.a + value) % 256
    IN [alu_flags(unset_flag(s, FlagNegative), result = 0,
                  And(s.reg.a, 15) + And(value, 15) > 15,
                  s.reg.a + value > 255)
           EXCEPT !.reg.a = result]

\* a variant of adc_a_reg whose half carry leaves the carry-in out
adc_a_reg_half_without_carry(s, value) ==
    LET carry == IF flag_is_active(s, FlagCarry) THEN 1 ELSE 0
        result == (s.reg.a + value + carry) % 256
    IN [alu_flags(unset_flag(s, FlagNegative), result = 0,
                  And(s.reg.a, 15) + And(value, 15) > 15,
                  s.reg.a + value + carry > 255)
           EXCEPT !.reg.a = result]

\* Cpu::adc_a_reg
adc_a_reg(s, value) ==
    LET carry == IF flag_is_active(s, FlagCarry) THEN 1 ELSE 0
        result == (s.reg.a + value + carry) % 256
    IN [alu_flags(unset_flag(s, FlagNegative), result = 0,
                  And(s.reg.a, 15) + And(value, 15) + carry > 15,
                  s.reg.a + value + carry > 255)
           EXCEPT !.reg.a = result]

\* Cpu::sub
sub(s, value) ==
    LET result == (s.reg.a + 256 - value) % 256
    IN [alu_flags(set_flag(s, FlagNegative), result = 0,
                  And(s.reg.a, 15) < And(value, 15),
                  s.reg.a < value)
           EXCEPT !.reg.a = result]

\* Cpu::sbc_a_reg
sbc_a_reg(s, value) ==
    LET carry == IF flag_is_active(s, FlagCarry) THEN 1 ELSE 0
        result == (s.reg.a + 512 - value - carry) % 256
    IN [alu_flags(set_flag(s, FlagNegative), result = 0,
                  And(s.reg.a, 15) < And(value, 15) + carry,
                  s.reg.a < value + carry)
           EXCEPT !.reg.a = result]

\* Cpu::cp_a_helper
cp_a_helper(s, value) ==
    LET result == (s.reg.a + 256 - value) % 256
    IN alu_flags(set_flag(s, FlagNegative), result = 0,
                 And(s.reg.a, 15) < And(value, 15),
                 s.reg.a < value)

\* Cpu::xor_a_helper
xor_a_helper(s, value) ==
    The({[set_flag_on_if(reset_flags(s), FlagZero, result = 0)
              EXCEPT !.reg.a = result] :
             result \in {Xor(s.reg.a, value)}})

\* Cpu::xor_a_a
xor_a_a(s) == xor_a_helper([s EXCEPT !.m = 1], s.reg.a)

\* Cpu::ld_a_byte
ld_a_byte(s, d8) == [fetch(s) EXCEPT !.m = 2, !.reg.a = d8]

\* Cpu::ld_addr_a
ld_addr_a(s, a8) ==
    The({bus_write_byte(s1, addr, s1.reg.a) :
             s1 \in {fetch([s EXCEPT !.m = 3])}, addr \in {Or(65280, a8)}})

\* `value as i8` widened to 16 bits
SignExtend(x) == IF x >= 128 THEN x + 65280 ELSE x

\* Cpu::read_byte : the byte at pc, with pc advanced
read_byte(s, ext) ==
    [s |-> fetch(s), value |-> bus_read_byte(s, s.reg.pc, ext)]

\* Cpu::read_word : the word at pc, with pc advanced by 2
read_word(s, ext_lo, ext_hi) ==
    [s |-> [s EXCEPT !.reg.pc = Wrap16(s.reg.pc + 2)],
     value |-> bus_read_word(s, s.reg.pc, ext_lo, ext_hi)]

\* Cpu::jr_nz : the offset is read before the flag is tested
jr_nz(s, ext) ==
    The({IF ~flag_is_active(r.s, FlagZero)
         THEN [r.s EXCEPT !.m = 3,
                          !.reg.pc = Wrap16(@ + SignExtend(r.value))]
         ELSE [r.s EXCEPT !.m = 2] :
             r \in {read_byte(s, ext)}})

\* jr_cc whose untaken path leaves pc on the offset byte
jr_cc_no_skip(s, taken, ext) ==
    IF taken
    THEN The({[r.s EXCEPT !.reg.pc = Wrap16(@ + SignExtend(r.value))] :
                 r \in {read_byte([s EXCEPT !.m = 3], ext)}})
    ELSE [s EXCEPT !.m = 2]

\* Cpu::jr_z, Cpu::jr_nc, Cpu::jr_c : taken is the outcome of the flag test
jr_cc(s, taken, ext) ==
    IF taken
    THEN The({[r.s EXCEPT !.reg.pc = Wrap16(@ + SignExtend(r.value))] :
                 r \in {read_byte([s EXCEPT !.m = 3], ext)}})
    ELSE [s EXCEPT !.m = 2, !.reg.pc = Wrap16(@ + 1)]

\* Cpu::jp_nz, Cpu::jp_z, Cpu::jp_nc, Cpu::jp_c
jp_cc(s, taken, ext_lo, ext_hi) ==
    IF taken
    THEN The({[r.s EXCEPT !.reg.pc = r.value] :
                 r \in {read_word([s EXCEPT !.m = 4], ext_lo, ext_hi)}})
    ELSE [s EXCEPT !.m = 3, !.reg.pc = Wrap16(@ + 2)]

\* Cpu::call_nz, Cpu::call_z, Cpu::call_nc, Cpu::call_c
call_cc(s, taken, ext_lo, ext_hi) ==
    IF taken
    THEN The({[r.s EXCEPT !.reg.pc = r.value] :
                 r \in {read_word(s1, ext_lo, ext_hi) :
                     s1 \in {push_stack([s EXCEPT !.m = 6],
                                        Wrap16(s.reg.pc + 2))}}})
    ELSE [s EXCEPT !.m = 3, !.reg.pc = Wrap16(@ + 2)]

\* Cpu::ret_nz, Cpu::ret_z, Cpu::ret_nc, Cpu::ret_c
ret_cc(s, taken, ext_lo, ext_hi) ==
    IF taken
    THEN The({[s1 EXCEPT !.reg.pc = v] :
                 s1 \in {pop_sp([s EXCEPT !.m = 5])},
                 v \in {pop_value(s, ext_lo, ext_hi)}})
    ELSE [s EXCEPT !.m = 2]

\* the conditional opcodes: JR, RET, JP and CALL on NZ, Z, NC and C
JumpOpcodes ==
    {32, 40, 48, 56, 192, 200, 208, 216, 194, 202, 210, 218, 196, 204, 212,
     220}

\* Cpu::decode_execute, the arms of the conditional jumps, calls and
\* returns.  x and y are the bytes read from outside the modelled memory.
decode_jump(s0, opcode, x, y) ==
    LET s == fetch(s0)
        z == flag_is_active(s, FlagZero)
        c == flag_is_active(s, FlagCarry)
    IN CASE opcode = 32 -> jr_nz(s, x)
         [] opcode = 40 -> jr_cc(s, z, x)
         [] opcode = 48 -> jr_cc(s, ~c, x)
         [] opcode = 56 -> jr_cc(s, c, x)
         [] opcode = 192 -> ret_cc(s, ~z, x, y)
         [] opcode = 194 -> jp_cc(s, ~z, x, y)
         [] opcode = 196 -> call_cc(s, ~z, x, y)
         [] opcode = 200 -> ret_cc(s, z, x, y)
         [] opcode = 202 -> jp_cc(s, z, x, y)
         [] opcode = 204 -> call_cc(s, z, x, y)
         [] opcode = 208 -> ret_cc(s, ~c, x, y)
         [] opcode = 210 -> jp_cc(s, ~c, x, y)
         [] opcode = 212 -> call_cc(s, ~c, x, y)
         [] opcode = 216 -> ret_cc(s, c, x, y)
         [] opcode = 218 -> jp_cc(s, c, x, y)
         [] opcode = 220 -> call_cc(s, c, x, y)

\* Cpu::decode_execute, the opcodes of this model.  x and y are the bytes
\* the instruction reads from outside the modelled memory: its immediate
\* operand, or the stack bytes when sp points outside high RAM.
Opcodes ==
    {0, 16, 55, 60, 62, 63, 118, 175, 203, 211, 217, 224, 241, 243, 244, 245,
     251, 253}

\* Cpu::cb_rlc
cb_rlc(s, register) ==
    LET result == And(Or((register * 2) % 256,
                         IF And(register, 128) = 128 THEN 1 ELSE 0), 255)
    IN The({[s |-> set_flag_on_if(s3, FlagCarry, And(register, 128) = 128),
             result |-> result] :
                s3 \in {unset_flag(s2, FlagHalfCarry) :
                    s2 \in {unset_flag(s1, FlagNegative) :
                        s1 \in {set_flag_on_if([s EXCEPT !.m = 2], FlagZero,
                                               result = 0)}}}})

\* Cpu::cb_swap; it assigns no cost
cb_swap(s, register) ==
    LET result == Or(Shr(register, 4), (register * 16) % 256)
    IN [s |-> set_flag_on_if(reset_flags(s), FlagZero, result = 0),
        result |-> result]

\* the 0xCB opcodes followed: RLC A and SWAP A
CbOpcodes == {7, 55}

\* Cpu::call_cb, the second opcode byte cb fetched and executed
call_cb(s0, cb) ==
    LET s == fetch(s0)
    IN CASE cb = 7 -> The({[r.s EXCEPT !.reg.a = r.result] :
                               r \in {cb_rlc(s, s.reg.a)}})
         [] cb = 55 -> The({[r.s EXCEPT !.reg.a = r.result] :
                                r \in {cb_swap(s, s.reg.a)}})

\* the opcodes decode_execute sends to nop with the comment "Undefined opcode"
UndefinedAsNop == {211, 219, 221, 227, 228, 235, 236, 237, 252, 253}

\* Cpu::decode_execute, the arm of an opcode no other arm names: a line is
\* printed and nothing is assigned
unrecognized(s) == s

decode_execute(s0, opcode, x, y) ==
    LET s == fetch(s0)
    IN CASE opcode = 0 -> nop(s)
         [] opcode = 16 -> stop(s)
         [] opcode = 55 -> scf(s)
         [] opcode = 60 -> inc_a(s)
         [] opcode = 62 -> ld_a_byte(s, x)
         [] opcode = 63 -> ccf(s)
         [] opcode = 118 -> halt(s)
         [] opcode = 175 -> xor_a_a(s)
         [] opcode = 203 -> call_cb(s, x)
         [] opcode \in UndefinedAsNop -> nop(s)
         [] opcode = 217 -> reti(s, x, y)
         [] opcode = 224 -> ld_addr_a(s, x)
         [] opcode = 241 -> pop_af(s, x, y)
         [] opcode = 243 -> di(s)
         [] opcode = 244 -> unrecognized(s)
         [] opcode = 245 -> push_af(s)
         [] opcode = 251 -> ei(s)

\* Cpu::run_cycle, the delayed enable-interrupts latch
latch_ime(s) ==
    IF s.enable_ime_next
    THEN [s EXCEPT !.ime = TRUE, !.enable_ime_next = FALSE]
    ELSE s

\* Cpu::run_cycle, display and timer advanced by the cost m
advance_ppu_timer(s) ==
    The({IF t.interrupt
         THEN [s1 EXCEPT !.if_ = Or(s1.if_, 4),
                         !.timer = [t EXCEPT !.interrupt = FALSE]]
         ELSE [s1 EXCEPT !.timer = t] :
             s1 \in {[s EXCEPT !.if_ = pu.bitmask, !.ppu = pu.ppu] :
                         pu \in {ppu_update_ly(s.ppu, s.m)}},
             t \in {timer_update(s.timer, s.m)}})

\* Cpu::run_cycle, serial port advanced by the cost m
advance_serial(s) ==
    The({IF r.done
         THEN [s EXCEPT !.serial = r.serial, !.if_ = Or(s.if_, 8)]
         ELSE [s EXCEPT !.serial = r.serial] :
             r \in {serial_step(s.serial, s.m)}})

\* Cpu::run_cycle, the halted branch
run_halted(s0) ==
    The({[s |-> h.s, ret |-> h.s.m, serviced |-> h.bit,
          fed |-> [timer |-> 1, ppu |-> 1, serial |-> 0]] :
             h \in {IF pending_of(s2) # 0 /\ s2.ime
                    THEN handle_interrupts(s2, TRUE)
                    ELSE [s |-> s2, handled |-> FALSE, bit |-> 0] :
                        s2 \in {IF pending_of(s1) # 0
                                THEN [s1 EXCEPT !.halted = FALSE]
                                ELSE s1 :
                                    s1 \in {advance_ppu_timer(
                                                [s0 EXCEPT !.m = 1])}}}})

\* Cpu::run_cycle, the stopped branch
run_stopped(s0) ==
    LET n == s0.STOP_CYCLES + s0.m
        s1 == IF n >= 456
              THEN [s0 EXCEPT !.if_ = Or(s0.if_, 16), !.stopped = FALSE,
                              !.STOP_CYCLES = 0]
              ELSE [s0 EXCEPT !.STOP_CYCLES = n]
    IN [s |-> s1, ret |-> s1.m, serviced |-> 0,
        fed |-> [timer |-> 0, ppu |-> 0, serial |-> 0]]

\* Cpu::run_cycle, the interrupt serviced in place of an instruction
run_dispatch(s0) ==
    The({[s |-> h.s, ret |-> h.s.m, serviced |-> h.bit,
          fed |-> [timer |-> 0, ppu |-> 0, serial |-> 0]] :
             h \in {handle_interrupts(s0, TRUE)}})

\* Cpu::run_cycle, an instruction executed and the peripherals advanced
run_instruction(s0, opcode, x, y) ==
    The({The({[s |-> s3, ret |-> s3.m, serviced |-> 0,
               fed |-> [timer |-> s1.m, ppu |-> s1.m, serial |-> s1.m]] :
                  s3 \in {advance_serial(s2) :
                              s2 \in {advance_ppu_timer(s1)}}}) :
             s1 \in {decode_execute(s0, opcode, x, y)}})

----------------------------------------------------------------------------
(* Spec : the stepping loop.                                               *)

\* the machine state as one record
\* no trigger observed, or the frequency has changed since
NoTrigger == [ticks |-> -1, freq |-> 0]

\* main : sync_channel::<Vec<i16>>(4), the capacity of the channel
ChannelBound == 4

\* main : the channel as created
ChannelNew == [queue |-> <<>>, receiver |-> TRUE]

\* the state only the specifications of the bus, the serial port, the
\* synthesizer and the frame loop change
Elsewhere == <<bus, fault, overflow_checks, sink, apu, since, chan>>

\* a 32 KiB cartridge without a bank controller, nothing accessed yet
ElsewhereIdle ==
    /\ bus = BusNew(cartridge_load(0, 32768))
    /\ fault = FALSE
    /\ overflow_checks = FALSE
    /\ sink = <<>>
    /\ apu = ApuNew
    /\ since = [ch1 |-> NoTrigger, ch2 |-> NoTrigger]
    /\ chan = ChannelNew

Cur ==
    [reg |-> reg, m |-> m, halted |-> halted, ime |-> ime,
     enable_ime_next |-> enable_ime_next, stopped |-> stopped,
     STOP_CYCLES |-> STOP_CYCLES, ie |-> ie, if_ |-> if_, hram |-> hram,
     timer |-> timer, ppu |-> ppu, serial |-> serial]

\* the next machine state is s
Becomes(s) ==
    /\ reg' = s.reg
    /\ m' = s.m
    /\ halted' = s.halted
    /\ ime' = s.ime
    /\ enable_ime_next' = s.enable_ime_next
    /\ stopped' = s.stopped
    /\ STOP_CYCLES' = s.STOP_CYCLES
    /\ ie' = s.ie
    /\ if_' = s.if_
    /\ hram' = s.hram
    /\ timer' = s.timer
    /\ ppu' = s.ppu
    /\ serial' = s.serial

\* the fields of the state a step begins in, as the observations keep them
Snapshot ==
    [halted |-> halted, stopped |-> stopped, ime |-> ime,
     enable_ime_next |-> enable_ime_next, ie |-> ie, if_ |-> if_,
     pc |-> reg.pc, sp |-> reg.sp, f |-> reg.f]

\* the observations of a step of kind k retiring opcode o with result r;
\* prev keeps the step before it, with the ime that step ran under
Observe(k, o, r) ==
    /\ kind' = k
    /\ op' = o
    /\ prev' = [kind |-> kind, op |-> op,
                 ime |-> pre.ime \/ pre.enable_ime_next]
    /\ ret' = r.ret
    /\ fed' = r.fed
    /\ serviced' = r.serviced
    /\ pre' = Snapshot
    /\ steps' = steps + 1
    /\ UNCHANGED <<irq, total, af_in, af_out>>
    /\ UNCHANGED Elsewhere

\* immediate operands of LD A,d8
D8Inputs == {0, 5, 255}

\* immediate operands of LDH (a8),A : TIMA, TAC, IF, high RAM, IE
A8Inputs == {5, 7, 15, 128, 255}

\* bytes read from the stack when sp points outside high RAM
ExtBytes == {0, 255}

\* the display some 100 cycles into its first line
PpuMid == [PpuNew EXCEPT !.mode = PIXEL_TRANSFER, !.ly_cycles = 100]

\* the display two cycles before the end of line 143
PpuNearVBlank ==
    [PpuNew EXCEPT !.mode = HBLANK, !.ly = 143, !.ly_cycles = 454,
                   !.stat = 129]

\* the timer enabled on the fastest tap, one increment from overflow
TimerArmed(div_counter) ==
    [div |-> 0, tima |-> 255, tma |-> 128, tac |-> 5,
     div_counter |-> div_counter, interrupt |-> FALSE,
     tima_reload_delay |-> None]

\* Cpu::new, then a program prefix that has configured IE, the timer and
\* let the display run; the stopped start is a STOP followed by 226 stopped
\* steps.  Every start has IF = 0 and ime clear.
Starts ==
    { [timer |-> TimerNew, ppu |-> PpuNew, ie |-> 0, stopped |-> FALSE],
      [timer |-> TimerArmed(8), ppu |-> PpuMid, ie |-> 4, stopped |-> FALSE],
      [timer |-> TimerNew, ppu |-> PpuNearVBlank, ie |-> 1,
       stopped |-> FALSE],
      [timer |-> TimerArmed(12), ppu |-> PpuNearVBlank, ie |-> 31,
       stopped |-> FALSE],
      [timer |-> [TimerNew EXCEPT !.div_counter = 8], ppu |-> PpuMid,
       ie |-> 16, stopped |-> TRUE] }

NoObservation ==
    /\ kind = "none"
    /\ op = -1
    /\ prev = [kind |-> "none", op |-> -1, ime |-> FALSE]
    /\ ret = 0
    /\ fed = [timer |-> 0, ppu |-> 0, serial |-> 0]
    /\ serviced = 0
    /\ steps = 0

Init ==
    /\ \E st \in Starts :
          /\ timer = st.timer
          /\ ppu = st.ppu
          /\ ie = st.ie
          /\ stopped = st.stopped
          /\ m = IF st.stopped THEN 2 ELSE 0
          /\ STOP_CYCLES = IF st.stopped THEN 452 ELSE 0
          /\ reg = IF st.stopped THEN [RegisterNew EXCEPT !.pc = 258]
                   ELSE RegisterNew
    /\ halted = FALSE
    /\ ime = FALSE
    /\ enable_ime_next = FALSE
    /\ if_ = 0
    /\ hram = <<>>
    /\ serial = SerialNew
    /\ NoObservation
    /\ ElsewhereIdle
    /\ pre = Snapshot
    /\ irq = 0
    /\ total = 0
    /\ af_in = 0
    /\ af_out = -1

\* run_cycle while halted
HaltedStep ==
    /\ steps < MaxSteps
    /\ halted
    /\ \E r \in {run_halted(latch_ime(Cur))} :
          Becomes(r.s) /\ Observe("halted", -1, r)

\* run_cycle while stopped
StoppedStep ==
    /\ steps < MaxSteps
    /\ ~halted
    /\ stopped
    /\ \E r \in {run_stopped(latch_ime(Cur))} :
          Becomes(r.s) /\ Observe("stopped", -1, r)

\* run_cycle servicing an interrupt in place of an instruction
DispatchStep ==
    /\ steps < MaxSteps
    /\ ~halted
    /\ ~stopped
    /\ latch_ime(Cur).ime
    /\ pending_of(Cur) # 0
    /\ \E r \in {run_dispatch(latch_ime(Cur))} :
          Becomes(r.s) /\ Observe("dispatch", -1, r)

\* the operand bytes an opcode can meet
OperandsX(opcode) ==
    CASE opcode = 62 -> D8Inputs
      [] opcode = 203 -> CbOpcodes
      [] opcode = 224 -> A8Inputs
      [] opcode \in {217, 241} -> ExtBytes
      [] OTHER -> {0}

\* outside high RAM the two stack bytes read alike
OperandsY(opcode, x) == IF opcode \in {217, 241} THEN {x} ELSE {0}

\* run_cycle fetching and executing one instruction
ExecStep ==
    /\ steps < MaxSteps
    /\ ~halted
    /\ ~stopped
    /\ ~(latch_ime(Cur).ime /\ pending_of(Cur) # 0)
    /\ \E opcode \in Opcodes :
         \E x \in OperandsX(opcode) : \E y \in OperandsY(opcode, x) :
            \E r \in {run_instruction(latch_ime(Cur), opcode, x, y)} :
               Becomes(r.s) /\ Observe("instr", opcode, r)

Next == HaltedStep \/ StoppedStep \/ DispatchStep \/ ExecStep

Spec == Init /\ [][Next]_vars

----------------------------------------------------------------------------
(* SpecTwin : two processor instances of one process.  Each has its own   *)
(* registers, flags and bus; STOP_CYCLES is the `static mut` of run_cycle, *)
(* one counter for the whole process.                                      *)

\* steps taken by the two processors together
MaxTwinSteps == 4

\* the opcodes the processors execute: NOP, STOP, INC A
TwinOpcodes == {0, 16, 60}

\* Cpu::run_cycle on the processor s, whose field STOP_CYCLES stands for the
\* static counter as the step finds it
run_cycle(s0, opcode, x, y) ==
    LET s == latch_ime(s0)
    IN IF s.halted THEN run_halted(s)
       ELSE IF s.stopped THEN run_stopped(s)
       ELSE IF s.ime /\ pending_of(s) # 0 THEN run_dispatch(s)
       ELSE run_instruction(s, opcode, x, y)

\* a processor's own state: its fields without the process-wide counter
Own(s) == [s EXCEPT !.STOP_CYCLES = 0]

\* the step of run_cycle as seen from outside: the cost returned and the
\* processor's own state after it
Outcome(r) == [ret |-> r.ret, s |-> Own(r.s)]

\* the counter a processor would hold if it kept its own: the cycles of its
\* own stopped steps since it last stopped
own_counter(r) == r.s.STOP_CYCLES

\* the first processor at power-on or stopped for 226 steps, the second at
\* power-on; prev is the second processor
InitTwin ==
    /\ \E st \in {s \in Starts : s.ie \in {0, 16}} :
          /\ timer = st.timer
          /\ ppu = st.ppu
          /\ ie = st.ie
          /\ stopped = st.stopped
          /\ m = IF st.stopped THEN 2 ELSE 0
          /\ STOP_CYCLES = IF st.stopped THEN 452 ELSE 0
          /\ reg = IF st.stopped THEN [RegisterNew EXCEPT !.pc = 258]
                   ELSE RegisterNew
          /\ pre = [first |-> IF st.stopped THEN 452 ELSE 0, second |-> 0,
                    actual |-> 0, alone |-> 0]
    /\ halted = FALSE
    /\ ime = FALSE
    /\ enable_ime_next = FALSE
    /\ if_ = 0
    /\ hram = <<>>
    /\ serial = SerialNew
    /\ prev = [reg |-> RegisterNew, m |-> 0, halted |-> FALSE, ime |-> FALSE,
               enable_ime_next |-> FALSE, stopped |-> FALSE,
               STOP_CYCLES |-> 0, ie |-> 0, if_ |-> 0, hram |-> <<>>,
               timer |-> TimerNew, ppu |-> PpuNew, serial |-> SerialNew]
    /\ kind = "none"
    /\ op = -1
    /\ ret = 0
    /\ fed = [timer |-> 0, ppu |-> 0, serial |-> 0]
    /\ serviced = 0
    /\ steps = 0
    /\ ElsewhereIdle
    /\ irq = 0
    /\ total = 0
    /\ af_in = 0
    /\ af_out = -1

\* run_cycle on the first processor.  pre keeps the counters the two would
\* hold on their own, the outcome of the step, and its outcome had the
\* processor met its own counter
TwinStepFirst ==
    /\ steps < MaxTwinSteps
    /\ \E opcode \in TwinOpcodes :
         \E r \in {run_cycle(Cur, opcode, 0, 0)},
            a \in {run_cycle([Cur EXCEPT !.STOP_CYCLES = pre.first],
                             opcode, 0, 0)} :
            /\ Becomes(r.s)
            /\ kind' = "first"
            /\ op' = IF Cur.stopped \/ Cur.halted THEN -1 ELSE opcode
            /\ ret' = r.ret
            /\ pre' = [pre EXCEPT !.first = own_counter(a),
                                  !.actual = Outcome(r),
                                  !.alone = Outcome(a)]
    /\ steps' = steps + 1
    /\ UNCHANGED <<prev, fed, serviced, irq, total, af_in, af_out>>
    /\ UNCHANGED Elsewhere

\* run_cycle on the second processor, which meets the counter the first
\* left and leaves its own
TwinStepSecond ==
    /\ steps < MaxTwinSteps
    /\ \E opcode \in TwinOpcodes :
         \E r \in {run_cycle([prev EXCEPT !.STOP_CYCLES = STOP_CYCLES],
                             opcode, 0, 0)},
            a \in {run_cycle([prev EXCEPT !.STOP_CYCLES = pre.second],
                             opcode, 0, 0)} :
            /\ prev' = Own(r.s)
            /\ STOP_CYCLES' = r.s.STOP_CYCLES
            /\ kind' = "second"
            /\ op' = IF prev.stopped \/ prev.halted THEN -1 ELSE opcode
            /\ ret' = r.ret
            /\ pre' = [pre EXCEPT !.second = own_counter(a),
                                  !.actual = Outcome(r),
                                  !.alone = Outcome(a)]
    /\ steps' = steps + 1
    /\ UNCHANGED <<reg, m, halted, ime, enable_ime_next, stopped, ie, if_,
                   hram, timer, ppu, serial, fed, serviced, irq, total,
                   af_in, af_out>>
    /\ UNCHANGED Elsewhere

NextTwin == TwinStepFirst \/ TwinStepSecond

SpecTwin == InitTwin /\ [][NextTwin]_vars

----------------------------------------------------------------------------
(* SpecTimer : the timer driven through update and write_byte, with the    *)
(* stepping loop's hand-over of its interrupt flag to IF.                  *)

\* the fields no specification but Spec changes
CpuIdle ==
    /\ UNCHANGED <<reg, m, halted, ime, enable_ime_next, stopped, STOP_CYCLES,
                   ie, hram, serial, fed, serviced, prev, af_in, af_out>>
    /\ UNCHANGED Elsewhere

CpuAtPowerOn ==
    /\ reg = RegisterNew
    /\ m = 0
    /\ halted = FALSE
    /\ ime = FALSE
    /\ enable_ime_next = FALSE
    /\ stopped = FALSE
    /\ STOP_CYCLES = 0
    /\ ie = 0
    /\ if_ = 0
    /\ hram = <<>>
    /\ serial = SerialNew
    /\ NoObservation
    /\ ElsewhereIdle
    /\ irq = 0
    /\ total = 0
    /\ af_in = 0
    /\ af_out = -1

\* the timer after power-on with the counter having run for a while
\* (the taps are bits 3, 5, 7, 9), and the timer armed as in Starts
TimerStarts ==
    {[TimerNew EXCEPT !.div_counter = d, !.div = d \div 256] :
         d \in {0, 8, 40, 136, 520}}
    \cup {TimerArmed(8), TimerArmed(12)}

\* M-cycle costs handed to Timer::update
TimerCycles == {1, 4}

\* values written to the timer's registers
TimerValues(addr) ==
    CASE addr = 65284 -> {0}
      [] addr = 65285 -> {0, 255}
      [] addr = 65286 -> {0, 128}
      [] addr = 65287 -> {0, 4, 5, 6, 7, 253}

InitTimer ==
    /\ timer \in TimerStarts
    /\ ppu = PpuNew
    /\ pre = timer
    /\ CpuAtPowerOn

\* Timer::update(m_cycles), then run_cycle moving the interrupt flag to IF
TimerUpdate ==
    /\ steps < MaxTimerOps
    /\ \E mc \in TimerCycles :
          \E t \in {timer_update(timer, mc)} :
             /\ timer' = [t EXCEPT !.interrupt = FALSE]
             /\ if_' = IF t.interrupt THEN Or(if_, 4) ELSE if_
             /\ irq' = IF t.interrupt THEN 4 ELSE 0
             /\ kind' = "update"
             /\ op' = mc
             /\ ret' = 0
    /\ pre' = timer
    /\ steps' = steps + 1
    /\ UNCHANGED <<ppu, total>>
    /\ CpuIdle

\* Timer::write_byte(addr, value)
TimerWrite ==
    /\ steps < MaxTimerOps
    /\ \E addr \in 65284..65287 : \E value \in TimerValues(addr) :
          /\ timer' = timer_write_byte(timer, addr, value)
          /\ kind' = "write"
          /\ op' = addr
          /\ ret' = value
    /\ pre' = timer
    /\ steps' = steps + 1
    /\ UNCHANGED <<ppu, total, if_, irq>>
    /\ CpuIdle

NextTimer == TimerUpdate \/ TimerWrite

SpecTimer == InitTimer /\ [][NextTimer]_vars

----------------------------------------------------------------------------
(* SpecPpu : the display timing driven through update_ly and write_byte.   *)

\* cycle costs handed to Ppu::update_ly
PpuCycles == {1, 4, 6}

\* values written to the control register: LCD on, LCD off
LcdcValues == {145, 17}

\* cycles in one frame: 154 lines of 456
FrameCycles == 154 * 456

InitPpu ==
    /\ ppu = PpuNew
    /\ timer = TimerNew
    /\ pre = [ly |-> ppu.ly]
    /\ CpuAtPowerOn

\* Ppu::update_ly(cycles)
PpuUpdate ==
    /\ \E cycles \in PpuCycles :
          \E r \in {ppu_update_ly(ppu, cycles)} :
             /\ ppu' = r.ppu
             /\ irq' = r.bitmask
             /\ total' = IF lcd_enabled(ppu)
                         THEN (total + cycles) % FrameCycles
                         ELSE 0
    /\ kind' = "update"
    /\ pre' = [ly |-> ppu.ly]
    /\ UNCHANGED <<timer, if_, op, ret, steps>>
    /\ CpuIdle

\* Ppu::write_byte(0xFF40, value)
PpuWriteLcdc ==
    /\ \E value \in LcdcValues :
          /\ ppu' = ppu_write_byte(ppu, 65344, value)
    /\ kind' = "write"
    /\ pre' = [ly |-> ppu.ly]
    /\ UNCHANGED <<timer, if_, op, ret, irq, total, steps>>
    /\ CpuIdle

NextPpu == PpuUpdate \/ PpuWriteLcdc

SpecPpu == InitPpu /\ [][NextPpu]_vars

----------------------------------------------------------------------------
(* SpecStat : the display status driven from positions around every mode   *)
(* boundary, with the control, status, compare and window registers        *)
(* written between updates.                                                *)

\* operations applied from each starting position
MaxStatOps == 3

\* the display after power-on, the given whole lines and then the given
\* number of calls of Ppu::update_ly(4) into the line: the line was entered
\* by an update that chose the mode before it advanced ly
PpuAfter(lines, updates) ==
    IF lines = 0 /\ updates = 0 THEN PpuNew
    ELSE [PpuNew EXCEPT
             !.ly = lines,
             !.ly_cycles = 4 * updates,
             !.stat = IF lines = 0 THEN 133 ELSE 129,
             !.mode = IF updates = 0
                      THEN (IF lines - 1 >= 144 THEN VBLANK ELSE HBLANK)
                      ELSE IF lines >= 144 THEN VBLANK
                      ELSE IF 4 * updates < 80 THEN OAM_SCAN
                      ELSE IF 4 * updates < 252 THEN PIXEL_TRANSFER
                      ELSE HBLANK]

\* first, last visible and last line of a frame
StatLines == {0, 143, 153}

\* updates into the line: its start and the update before each mode boundary
StatOffsets == {0, 19, 62, 113}

StatStarts == {PpuAfter(l, u) : l \in StatLines, u \in StatOffsets}

StatCycles == {4, 6}

\* control register values: LCD on, LCD off, each with the window enabled
StatLcdcValues == {177, 49}

\* status register values: no enable, the mode enables, the compare enable
StatStatValues == {0, 56, 64}

\* compare register values: the first line, the second, the first of vblank
StatLycValues == {0, 1, 144}

InitStat ==
    /\ \E p \in StatStarts :
          /\ ppu = p
          /\ pre = p
    /\ timer = TimerNew
    /\ CpuAtPowerOn

\* the observations of a display operation
StatObserve(k, o, r, i) ==
    /\ kind' = k
    /\ op' = o
    /\ ret' = r
    /\ irq' = i
    /\ pre' = ppu
    /\ steps' = steps + 1
    /\ UNCHANGED <<timer, if_, total>>
    /\ CpuIdle

\* Ppu::update_ly(cycles)
StatUpdate ==
    /\ steps < MaxStatOps
    /\ \E cycles \in StatCycles :
          \E r \in {ppu_update_ly(ppu, cycles)} :
             /\ ppu' = r.ppu
             /\ StatObserve("update", cycles, r.rendered, r.bitmask)

\* Ppu::write_byte(addr, value) on a display register
StatWriteTo(addr, values) ==
    /\ steps < MaxStatOps
    /\ \E value \in values :
          /\ ppu' = ppu_write_byte(ppu, addr, value)
          /\ StatObserve("write", addr, value, 0)

StatWriteLcdc == StatWriteTo(65344, StatLcdcValues)

StatWriteStat == StatWriteTo(65345, StatStatValues)

StatWriteLyc == StatWriteTo(65349, StatLycValues)

NextStat == StatUpdate \/ StatWriteLcdc \/ StatWriteStat \/ StatWriteLyc

SpecStat == InitStat /\ [][NextStat]_vars

----------------------------------------------------------------------------
(* SpecWindow : the window line counter over scanlines, with the window    *)
(* registers and the LCD-enable bit written between updates.               *)

\* updates and writes applied from each starting position
MaxWindowOps == 5

\* half a scanline
HalfLine == 228

\* the display after power-on, a write of 0xB1 to the control register
\* (LCD, window and background enabled; wy = 0 and wx = 0 as constructed)
\* and the given number of whole lines, each two calls of update_ly(228)
WindowAfter(lines) ==
    [PpuAfter(lines, 0) EXCEPT
        !.lcdc = 177,
        !.window_line_counter = IF lines < 144 THEN lines ELSE 144]

\* the first line, a line in mid-frame, the last visible line and vblank
WindowStarts == {WindowAfter(k) : k \in {0, 100, 143, 150}}

\* control bytes: all on, LCD off, background bit clear, window bit clear
WindowLcdc == {177, 49, 176, 145}

\* wy at the top and just below line 100
WindowWy == {0, 101}

\* wx with the window starting in the last column and past it
WindowWx == {166, 167}

InitWindow ==
    /\ ppu \in WindowStarts
    /\ pre = ppu
    /\ timer = TimerNew
    /\ CpuAtPowerOn

\* the observations of an update or write
WindowObserve(k, o, r) ==
    /\ kind' = k
    /\ op' = o
    /\ ret' = r
    /\ pre' = ppu
    /\ steps' = steps + 1
    /\ UNCHANGED <<reg, m, halted, ime, enable_ime_next, stopped, STOP_CYCLES,
                   ie, if_, hram, timer, serial, prev, fed, serviced, irq,
                   total, af_in, af_out>>
    /\ UNCHANGED Elsewhere

\* Ppu::update_ly(228)
WindowUpdate ==
    /\ steps < MaxWindowOps
    /\ \E r \in {ppu_update_ly(ppu, HalfLine)} :
          /\ ppu' = r.ppu
          /\ WindowObserve("update", HalfLine, r.rendered)

\* Ppu::write_byte to the control register, wy or wx
WindowWrite ==
    /\ steps < MaxWindowOps
    /\ \E addr \in {65344, 65354, 65355} :
         \E value \in (CASE addr = 65344 -> WindowLcdc
                         [] addr = 65354 -> WindowWy
                         [] addr = 65355 -> WindowWx) :
            /\ ppu' = ppu_write_byte(ppu, addr, value)
            /\ WindowObserve("write", addr, value)

NextWindow == WindowUpdate \/ WindowWrite

SpecWindow == InitWindow /\ [][NextWindow]_vars

----------------------------------------------------------------------------
(* SpecSprite : the sprite selection of a scanline, with sprite memory and *)
(* the control register written between updates.                           *)

\* updates and writes applied from each starting position
MaxSpriteOps == 4

\* sprite memory with the y byte of every entry chosen: every sprite at the
\* top of the screen; even entries at the top and odd ones eight lines
\* lower; three sprites around line 100 and the others off screen
SpriteLayouts ==
    { [a \in {4 * i : i \in 0..39} |-> 16],
      [a \in {4 * i : i \in 0..39} |-> IF a % 8 = 0 THEN 16 ELSE 24],
      [a \in {20, 80, 156} |->
          CASE a = 20 -> 101 [] a = 80 -> 116 [] a = 156 -> 109] }

\* the lines the updates start on
SpriteLines == {0, 7, 8, 100}

\* control bytes: sprites of 8 lines, of 16 lines, and disabled
SpriteLcdc == {147, 151, 145}

\* y bytes written: the first entry, entry 20
SpriteAddrs == {65024, 65104}

\* on screen at the top, and off screen
SpriteYs == {16, 0}

\* Ppu::new, sprite memory filled while it is unlocked, the sprites switched
\* on and the display run to the start of a line
InitSprite ==
    /\ \E k \in SpriteLines, o \in SpriteLayouts :
          ppu = [PpuAfter(k, 0) EXCEPT !.oam = o, !.lcdc = 147]
    /\ pre = ppu
    /\ timer = TimerNew
    /\ CpuAtPowerOn

\* Ppu::update_ly(228)
SpriteUpdate ==
    /\ steps < MaxSpriteOps
    /\ \E r \in {ppu_update_ly(ppu, HalfLine)} :
          /\ ppu' = r.ppu
          /\ WindowObserve("update", HalfLine, r.rendered)

\* Ppu::write_byte to the control register or to a y byte of sprite memory
SpriteWrite ==
    /\ steps < MaxSpriteOps
    /\ \E addr \in {65344} \cup SpriteAddrs :
         \E value \in (IF addr = 65344 THEN SpriteLcdc ELSE SpriteYs) :
            /\ ppu' = ppu_write_byte(ppu, addr, value)
            /\ WindowObserve("write", addr, value)

NextSprite == SpriteUpdate \/ SpriteWrite

SpecSprite == InitSprite /\ [][NextSprite]_vars

----------------------------------------------------------------------------
(* SpecReg : set_af then get_af on every 16-bit value.                     *)

InitReg ==
    /\ af_in \in 0..65535
    /\ af_out = -1
    /\ reg = RegisterNew
    /\ m = 0
    /\ halted = FALSE
    /\ ime = FALSE
    /\ enable_ime_next = FALSE
    /\ stopped = FALSE
    /\ STOP_CYCLES = 0
    /\ ie = 0
    /\ if_ = 0
    /\ hram = <<>>
    /\ serial = SerialNew
    /\ timer = TimerNew
    /\ ppu = PpuNew
    /\ NoObservation
    /\ ElsewhereIdle
    /\ pre = 0
    /\ irq = 0
    /\ total = 0

\* Register::set_af(af_in) followed by Register::get_af()
SetAfGetAf ==
    /\ af_out = -1
    /\ reg' = set_af(reg, af_in)
    /\ af_out' = get_af(set_af(reg, af_in))
    /\ UNCHANGED <<m, halted, ime, enable_ime_next, stopped, STOP_CYCLES, ie,
                   if_, hram, timer, ppu, serial, kind, op, prev, ret, fed,
                   serviced, pre, irq, total, steps, af_in>>
    /\ UNCHANGED Elsewhere

NextReg == SetAfGetAf

SpecReg == InitReg /\ [][NextReg]_vars

----------------------------------------------------------------------------
(* SpecAlu : the 8-bit ALU helpers applied to an accumulator, an operand   *)
(* and incoming flags.                                                     *)

\* operands at the nibble and byte boundaries
AluValues == {0, 1, 2, 15, 16, 17, 127, 128, 129, 240, 254, 255}

\* incoming flag bytes: carry clear and set, the other flags clear and set
AluFlags == {0, 16, 224, 240}

\* the operations driven
AluOps == {"add", "adc", "sub", "sbc", "cp", "inc", "dec"}

\* Cpu::new with the accumulator, the flags and the operand chosen
InitAlu ==
    /\ \E a \in Byte : \E f \in AluFlags : \E value \in AluValues :
          /\ reg = [RegisterNew EXCEPT !.a = a, !.f = f]
          /\ pre = [a |-> a, f |-> f, value |-> value]
    /\ m = 0
    /\ halted = FALSE
    /\ ime = FALSE
    /\ enable_ime_next = FALSE
    /\ stopped = FALSE
    /\ STOP_CYCLES = 0
    /\ ie = 0
    /\ if_ = 0
    /\ hram = <<>>
    /\ serial = SerialNew
    /\ timer = TimerNew
    /\ ppu = PpuNew
    /\ NoObservation
    /\ ElsewhereIdle
    /\ irq = 0
    /\ total = 0
    /\ af_in = 0
    /\ af_out = -1

\* one ALU helper applied to the machine state
alu_apply(s, alu, value) ==
    CASE alu = "add" -> add_a(s, value)
      [] alu = "adc" -> adc_a_reg(s, value)
      [] alu = "sub" -> sub(s, value)
      [] alu = "sbc" -> sbc_a_reg(s, value)
      [] alu = "cp" -> cp_a_helper(s, value)
      [] alu = "inc" -> inc_a(s)
      [] alu = "dec" -> dec_a(s)

\* one ALU operation on the chosen inputs
AluStep ==
    /\ kind = "none"
    /\ \E alu \in AluOps :
          /\ kind' = alu
          /\ \E s \in {alu_apply(Cur, alu, pre.value)} :
                reg' = s.reg /\ m' = s.m
    /\ UNCHANGED <<halted, ime, enable_ime_next, stopped, STOP_CYCLES, ie,
                   if_, hram, timer, ppu, serial, op, prev, ret, fed,
                   serviced, pre, irq, total, steps, af_in, af_out>>
    /\ UNCHANGED Elsewhere

NextAlu == AluStep

SpecAlu == InitAlu /\ [][NextAlu]_vars

----------------------------------------------------------------------------
(* SpecJump : one conditional jump, call or return executed from a chosen  *)
(* processor state.                                                        *)

\* flag bytes before the instruction: every combination of Zero and Carry,
\* with Negative and HalfCarry clear or set
JumpFlags == {0, 16, 128, 144, 96, 240}

\* addresses of the instruction: cartridge, high RAM, and the last address
\* whose operand word still lies inside the address space
JumpPcs == {256, 65408, 65533}

\* stack pointers: the top of high RAM with a return address stored or
\* free, and work RAM
JumpSps == {65534, 65532, 53248}

\* high RAM before the instruction: empty, or holding a return address
JumpHram == {<<>>, (65532 :> 52) @@ (65533 :> 18)}

\* operand and stack bytes read from outside high RAM
JumpLow == {0, 5, 128, 254}

JumpHigh == {1, 192}

\* Cpu::new with pc, sp and the flags chosen
InitJump ==
    /\ \E f \in JumpFlags, pc \in JumpPcs, sp \in JumpSps :
          reg = [RegisterNew EXCEPT !.f = f, !.pc = pc, !.sp = sp]
    /\ hram \in JumpHram
    /\ m = 0
    /\ halted = FALSE
    /\ ime = FALSE
    /\ enable_ime_next = FALSE
    /\ stopped = FALSE
    /\ STOP_CYCLES = 0
    /\ ie = 0
    /\ if_ = 0
    /\ serial = SerialNew
    /\ timer = TimerNew
    /\ ppu = PpuNew
    /\ NoObservation
    /\ ElsewhereIdle
    /\ pre = Snapshot
    /\ irq = 0
    /\ total = 0
    /\ af_in = 0
    /\ af_out = -1

\* Cpu::decode_execute on a conditional opcode; pre keeps the state before
\* it and the bytes it met outside high RAM
JumpStep ==
    /\ kind = "none"
    /\ \E opcode \in JumpOpcodes, x \in JumpLow, y \in JumpHigh :
          /\ Becomes(decode_jump(Cur, opcode, x, y))
          /\ kind' = "jump"
          /\ op' = opcode
          /\ pre' = [s |-> Cur, x |-> x, y |-> y]
          /\ ret' = decode_jump(Cur, opcode, x, y).m
    /\ UNCHANGED <<prev, fed, serviced, irq, total, steps, af_in, af_out>>
    /\ UNCHANGED Elsewhere

NextJump == JumpStep

SpecJump == InitJump /\ [][NextJump]_vars

----------------------------------------------------------------------------
(* SpecBcd : an 8-bit add or sub of two-digit BCD operands followed by the *)
(* decimal adjust.                                                         *)

\* the decimal numbers of two digits
Decimals == 0..99

\* the BCD encoding of a decimal number of two digits
BcdOf(n) == (n \div 10) * 16 + (n % 10)

\* flag bytes before the arithmetic: as at power-on, and its complement
BcdFlags == {128, 112}

\* Cpu::new with the accumulator and the flags chosen; pre keeps the
\* decimal operands
InitBcd ==
    /\ \E x \in Decimals, y \in Decimals, f \in BcdFlags :
          /\ reg = [RegisterNew EXCEPT !.a = BcdOf(x), !.f = f]
          /\ pre = [x |-> x, y |-> y]
    /\ m = 0
    /\ halted = FALSE
    /\ ime = FALSE
    /\ enable_ime_next = FALSE
    /\ stopped = FALSE
    /\ STOP_CYCLES = 0
    /\ ie = 0
    /\ if_ = 0
    /\ hram = <<>>
    /\ serial = SerialNew
    /\ timer = TimerNew
    /\ ppu = PpuNew
    /\ NoObservation
    /\ ElsewhereIdle
    /\ irq = 0
    /\ total = 0
    /\ af_in = 0
    /\ af_out = -1

\* the registers after an operation of the given kind
BcdBecomes(k, s) ==
    /\ kind' = k
    /\ op' = IF kind = "none" THEN k ELSE op
    /\ reg' = s.reg
    /\ m' = s.m
    /\ UNCHANGED <<halted, ime, enable_ime_next, stopped, STOP_CYCLES, ie,
                   if_, hram, timer, ppu, serial, prev, ret, fed,
                   serviced, pre, irq, total, steps, af_in, af_out>>
    /\ UNCHANGED Elsewhere

\* Cpu::add_a on the BCD operand
BcdAdd == kind = "none" /\ BcdBecomes("add", add_a(Cur, BcdOf(pre.y)))

\* Cpu::sub on the BCD operand
BcdSub == kind = "none" /\ BcdBecomes("sub", sub(Cur, BcdOf(pre.y)))

\* Cpu::daa after the arithmetic
BcdDaa == kind \in {"add", "sub"} /\ BcdBecomes("daa", daa(Cur))

NextBcd == BcdAdd \/ BcdSub \/ BcdDaa

SpecBcd == InitBcd /\ [][NextBcd]_vars

----------------------------------------------------------------------------
(* SpecFlag : the flag helpers applied to every flag byte.                 *)

\* the helpers driven
FlagOps == {"set_flag", "unset_flag", "reset_flags"}

\* one flag helper applied to the machine state
flag_apply(s, helper, flag) ==
    CASE helper = "set_flag" -> set_flag(s, flag)
      [] helper = "unset_flag" -> unset_flag(s, flag)
      [] helper = "reset_flags" -> reset_flags(s)

\* Cpu::new with the flag byte chosen
InitFlag ==
    /\ \E f \in Byte :
          /\ reg = [RegisterNew EXCEPT !.f = f]
          /\ pre = [f |-> f]
    /\ m = 0
    /\ halted = FALSE
    /\ ime = FALSE
    /\ enable_ime_next = FALSE
    /\ stopped = FALSE
    /\ STOP_CYCLES = 0
    /\ ie = 0
    /\ if_ = 0
    /\ hram = <<>>
    /\ serial = SerialNew
    /\ timer = TimerNew
    /\ ppu = PpuNew
    /\ NoObservation
    /\ ElsewhereIdle
    /\ irq = 0
    /\ total = 0
    /\ af_in = 0
    /\ af_out = -1

\* one flag helper called on the chosen flag byte
FlagStep ==
    /\ kind = "none"
    /\ \E helper \in FlagOps : \E flag \in Flags :
          /\ kind' = helper
          /\ op' = flag
          /\ reg' = flag_apply(Cur, helper, flag).reg
    /\ UNCHANGED <<m, halted, ime, enable_ime_next, stopped, STOP_CYCLES, ie,
                   if_, hram, timer, ppu, serial, prev, ret, fed,
                   serviced, pre, irq, total, steps, af_in, af_out>>
    /\ UNCHANGED Elsewhere

NextFlag == FlagStep

SpecFlag == InitFlag /\ [][NextFlag]_vars

----------------------------------------------------------------------------
(* SpecBus : the bus accessed at the edges of every region, with every     *)
(* kind of cartridge and either build.                                     *)

\* accesses observed from each initial state
MaxBusOps == 2

\* the first and last address of the regions of Bus::read_byte
BusAddrs ==
    {0, 16383, 16384, 32767, 32768, 40959, 40960, 49151, 49152, 57343,
     57344, 65023, 65024, 65183, 65184, 65280, 65281, 65284, 65295, 65296,
     65345, 65348, 65350, 65408, 65534, 65535}

\* the addresses written: bank select, the RAMs, sprite memory, transfer
BusWriteAddrs ==
    {8192, 32768, 40960, 49152, 49153, 57344, 65024, 65345, 65350, 65408,
     65535}

\* bytes written: a bank number and the pages 0x00, 0xA0, 0xC0
BusValues == {0, 3, 160, 192}

\* the word written
BusWords == {960}

\* cartridge type bytes: no controller, MBC1, MBC2, MBC3
HeaderTypes == {0, 1, 5, 17}

\* image sizes: 32 KiB and 64 KiB
ImageLens == {32768, 65536}

\* the machine state the bus operations work on
CurBus ==
    [rom |-> bus.rom, video_ram |-> bus.video_ram,
     working_ram |-> bus.working_ram, oam |-> bus.oam, stat |-> bus.stat,
     lyc |-> bus.lyc, ly |-> bus.ly, ly_cycles |-> bus.ly_cycles,
     serial |-> serial, timer |-> timer, if_ |-> if_, hram |-> hram,
     ie |-> ie]

BusBecomes(s) ==
    /\ bus' = [rom |-> s.rom, video_ram |-> s.video_ram,
               working_ram |-> s.working_ram, oam |-> s.oam, stat |-> s.stat,
               lyc |-> s.lyc, ly |-> s.ly, ly_cycles |-> s.ly_cycles]
    /\ serial' = s.serial
    /\ timer' = s.timer
    /\ if_' = s.if_
    /\ hram' = s.hram
    /\ ie' = s.ie

BusIdle ==
    UNCHANGED <<reg, m, halted, ime, enable_ime_next, stopped, STOP_CYCLES,
                ppu, prev, fed, serviced, irq, total, af_in, af_out,
                overflow_checks, sink, apu, since, chan>>

InitBus ==
    /\ \E h \in HeaderTypes, l \in ImageLens :
          bus = BusNew(cartridge_load(h, l))
    /\ overflow_checks \in BOOLEAN
    /\ fault = FALSE
    /\ sink = <<>>
    /\ apu = ApuNew
    /\ since = [ch1 |-> NoTrigger, ch2 |-> NoTrigger]
    /\ chan = ChannelNew
    /\ reg = RegisterNew
    /\ m = 0
    /\ halted = FALSE
    /\ ime = FALSE
    /\ enable_ime_next = FALSE
    /\ stopped = FALSE
    /\ STOP_CYCLES = 0
    /\ ie = 0
    /\ if_ = 0
    /\ hram = <<>>
    /\ timer = TimerNew
    /\ ppu = PpuNew
    /\ serial = SerialNew
    /\ NoObservation
    /\ pre = CurBus
    /\ irq = 0
    /\ total = 0
    /\ af_in = 0
    /\ af_out = -1

\* what an access leaves behind: its kind, address, value and outcome
BusObserve(k, addr, v, ok) ==
    /\ kind' = k
    /\ op' = addr
    /\ ret' = v
    /\ fault' = ~ok
    /\ pre' = CurBus
    /\ steps' = steps + 1
    /\ BusIdle

\* Bus::read_byte(addr)
BusRead ==
    /\ steps < MaxBusOps
    /\ ~fault
    /\ \E addr \in BusAddrs :
         \E r \in {bus_read(CurBus, addr)} :
            /\ BusBecomes(CurBus)
            /\ BusObserve("read", addr, r.value, r.ok)

\* Bus::write_byte(addr, value)
BusWrite ==
    /\ steps < MaxBusOps
    /\ ~fault
    /\ \E addr \in BusWriteAddrs, value \in BusValues :
         \E w \in {bus_write(CurBus, addr, value)} :
            /\ BusBecomes(w.s)
            /\ BusObserve("write", addr, value, w.ok)

\* Bus::read_word(addr)
BusReadWord ==
    /\ steps < MaxBusOps
    /\ ~fault
    /\ \E addr \in BusAddrs :
         \E r \in {bus_read_word_at(CurBus, addr, overflow_checks)} :
            /\ BusBecomes(CurBus)
            /\ BusObserve("read_word", addr, r.value, r.ok)

\* Bus::write_word(addr, value)
BusWriteWord ==
    /\ steps < MaxBusOps
    /\ ~fault
    /\ \E addr \in BusWriteAddrs \cup {65535}, value \in BusWords :
         \E w \in {bus_write_word_at(CurBus, addr, value, overflow_checks)} :
            /\ BusBecomes(w.s)
            /\ BusObserve("write_word", addr, value, w.ok)

NextBus == BusRead \/ BusWrite \/ BusReadWord \/ BusWriteWord

SpecBus == InitBus /\ [][NextBus]_vars

----------------------------------------------------------------------------
(* SpecStack : 16-bit values pushed and popped through Bus::write_word and *)
(* Bus::read_word, with the stack pointer in every region and either       *)
(* build.                                                                  *)

\* pushes and pops observed from each initial state
MaxStackOps == 3

\* stack pointers: high RAM, work RAM, the ends of the address space, and
\* the cartridge
StackPointers == {65534, 57344, 53248, 65535, 0, 1, 2, 258}

\* the words pushed
StackWords == {0, 4660, 43981, 65535}

\* Cpu::push_stack over every address
push_stack_at(s, sp, value, checks) ==
    The({[ok |-> w.ok, s |-> w.s, sp |-> nsp] :
             w \in {bus_write_word_at(s, nsp, value, checks) :
                        nsp \in {(sp + 65534) % 65536}},
             nsp \in {(sp + 65534) % 65536}})

\* Cpu::pop_stack over every address
pop_stack_at(s, sp, checks) ==
    The({[ok |-> r.ok, value |-> r.value,
          sp |-> IF r.ok THEN Wrap16(sp + 2) ELSE sp] :
             r \in {bus_read_word_at(s, sp, checks)}})

InitStack ==
    /\ \E h \in {0, 1} : bus = BusNew(cartridge_load(h, 32768))
    /\ \E sp \in StackPointers :
          /\ reg = [RegisterNew EXCEPT !.sp = sp]
          /\ pre = [sp |-> sp]
    /\ overflow_checks \in BOOLEAN
    /\ fault = FALSE
    /\ sink = <<>>
    /\ apu = ApuNew
    /\ since = [ch1 |-> NoTrigger, ch2 |-> NoTrigger]
    /\ chan = ChannelNew
    /\ m = 0
    /\ halted = FALSE
    /\ ime = FALSE
    /\ enable_ime_next = FALSE
    /\ stopped = FALSE
    /\ STOP_CYCLES = 0
    /\ ie = 0
    /\ if_ = 0
    /\ hram = <<>>
    /\ timer = TimerNew
    /\ ppu = PpuNew
    /\ serial = SerialNew
    /\ NoObservation
    /\ irq = 0
    /\ total = 0
    /\ af_in = 0
    /\ af_out = -1

\* what a push or pop leaves behind: its kind, its value, the stack pointer
\* before it, and the same of the operation before it
StackObserve(k, v, ok) ==
    /\ kind' = k
    /\ op' = v
    /\ fault' = ~ok
    /\ pre' = [sp |-> reg.sp]
    /\ prev' = [kind |-> kind, op |-> op, ime |-> FALSE, sp |-> pre.sp]
    /\ steps' = steps + 1
    /\ UNCHANGED <<m, halted, ime, enable_ime_next, stopped, STOP_CYCLES,
                   ppu, ret, fed, serviced, irq, total, af_in, af_out,
                   overflow_checks, sink, apu, since, chan>>

\* Cpu::push_stack(value)
StackPush ==
    /\ steps < MaxStackOps
    /\ ~fault
    /\ \E value \in StackWords :
         \E w \in {push_stack_at(CurBus, reg.sp, value, overflow_checks)} :
            /\ BusBecomes(w.s)
            /\ reg' = [reg EXCEPT !.sp = w.sp]
            /\ StackObserve("push", value, w.ok)

\* Cpu::pop_stack()
StackPop ==
    /\ steps < MaxStackOps
    /\ ~fault
    /\ \E r \in {pop_stack_at(CurBus, reg.sp, overflow_checks)} :
          /\ BusBecomes(CurBus)
          /\ reg' = [reg EXCEPT !.sp = r.sp]
          /\ StackObserve("pop", r.value, r.ok)

NextStack == StackPush \/ StackPop

SpecStack == InitStack /\ [][NextStack]_vars

----------------------------------------------------------------------------
(* SpecVram : display RAM and sprite memory read and written in every mode, *)
(* through Ppu::read_byte / write_byte and through Bus::read_byte /        *)
(* write_byte.                                                             *)

\* accesses and updates applied from each starting position
MaxVramOps == 4

\* first and last byte of display RAM and of sprite memory
VramAddrs == {32768, 40959, 65024, 65183}

VramValues == {18, 171}

\* positions four cycles before each mode boundary of line 0, and in vblank
VramStarts ==
    {PpuAfter(0, 19), PpuAfter(0, 62), PpuAfter(0, 113), PpuAfter(150, 19)}

InitVram ==
    /\ \E p \in VramStarts :
          /\ ppu = p
          /\ pre = [ppu |-> p, bus |-> BusNew(cartridge_load(0, 32768))]
    /\ timer = TimerNew
    /\ CpuAtPowerOn

\* the observations of an access or update
VramObserve(k, o, r) ==
    /\ kind' = k
    /\ op' = o
    /\ ret' = r
    /\ pre' = [ppu |-> ppu, bus |-> bus]
    /\ steps' = steps + 1
    /\ UNCHANGED <<reg, m, halted, ime, enable_ime_next, stopped, STOP_CYCLES,
                   ie, if_, hram, timer, serial, prev, fed, serviced, irq,
                   total, af_in, af_out, fault, overflow_checks, sink, apu,
                   since, chan>>

\* Ppu::read_byte(addr)
VramRead ==
    /\ steps < MaxVramOps
    /\ \E addr \in VramAddrs :
          VramObserve("read", addr, ppu_read_byte(ppu, addr))
    /\ UNCHANGED <<ppu, bus>>

\* Ppu::write_byte(addr, value)
VramWrite ==
    /\ steps < MaxVramOps
    /\ \E addr \in VramAddrs, value \in VramValues :
          /\ ppu' = ppu_write_byte(ppu, addr, value)
          /\ VramObserve("write", addr, value)
    /\ UNCHANGED bus

\* Bus::read_byte(addr)
VramBusRead ==
    /\ steps < MaxVramOps
    /\ \E addr \in VramAddrs :
          VramObserve("bus_read", addr, bus_read(CurBus, addr).value)
    /\ UNCHANGED <<ppu, bus>>

\* Bus::write_byte(addr, value)
VramBusWrite ==
    /\ steps < MaxVramOps
    /\ \E addr \in VramAddrs, value \in VramValues :
          \E w \in {bus_write(CurBus, addr, value)} :
             /\ bus' = [bus EXCEPT !.video_ram = w.s.video_ram,
                                   !.oam = w.s.oam]
             /\ VramObserve("bus_write", addr, value)
    /\ UNCHANGED ppu

\* Ppu::update_ly(4)
VramUpdate ==
    /\ steps < MaxVramOps
    /\ ppu' = ppu_update_ly(ppu, 4).ppu
    /\ VramObserve("update", 4, 0)
    /\ UNCHANGED bus

\* Ppu::write_byte(0xFF40, value)
VramWriteLcdc ==
    /\ steps < MaxVramOps
    /\ \E value \in LcdcValues :
          /\ ppu' = ppu_write_byte(ppu, 65344, value)
          /\ VramObserve("lcdc", 65344, value)
    /\ UNCHANGED bus

NextVram ==
    \/ VramRead
    \/ VramWrite
    \/ VramBusRead
    \/ VramBusWrite
    \/ VramUpdate
    \/ VramWriteLcdc

SpecVram == InitVram /\ [][NextVram]_vars

----------------------------------------------------------------------------
(* SpecSerial : the serial port written through the bus and advanced by    *)
(* the stepping loop.  The loop runs for as long as the program does, so   *)
(* the step is taken again and again.                                      *)

\* writes to the serial port observed from each initial state
MaxSerialOps == 3

\* data bytes and control values written
SerialValues(addr) ==
    IF addr = 65281 THEN {65, 66} ELSE {0, 1, 128, 129, 131, 255}

\* instruction costs handed to Serial::step
SerialCycles == 1..6

SerialIdle ==
    UNCHANGED <<reg, m, halted, ime, enable_ime_next, stopped, STOP_CYCLES,
                ie, hram, timer, ppu, prev, fed, serviced, irq, total,
                af_in, af_out, bus, fault, overflow_checks, apu, since,
                chan>>

InitSerial ==
    /\ CpuAtPowerOn
    /\ timer = TimerNew
    /\ ppu = PpuNew
    /\ pre = [data |-> 0, sink |-> <<>>]

\* Bus::write_byte at 0xFF01 or 0xFF02
SerialWrite ==
    /\ steps < MaxSerialOps
    /\ \E addr \in 65281..65282 : \E value \in SerialValues(addr) :
          /\ serial' = serial_write_byte(serial, addr, value)
          /\ sink' = sink \o serial_printed(serial, addr, value)
          /\ kind' = "write"
          /\ op' = addr
          /\ ret' = value
          /\ pre' = [data |-> serial.data, sink |-> sink]
    /\ steps' = steps + 1
    /\ UNCHANGED if_
    /\ SerialIdle

\* Cpu::run_cycle handing an instruction's cost to Serial::step
SerialStep ==
    /\ \E cycles \in SerialCycles :
          \E r \in {serial_step(serial, cycles)} :
             /\ serial' = r.serial
             /\ if_' = IF r.done THEN Or(if_, 8) ELSE if_
             /\ ret' = cycles
    /\ kind' = "step"
    /\ op' = -1
    /\ UNCHANGED <<sink, steps, pre>>
    /\ SerialIdle

NextSerial == SerialWrite \/ SerialStep

SpecSerial == InitSerial /\ [][NextSerial]_vars /\ WF_vars(SerialStep)

----------------------------------------------------------------------------
(* SpecApu : the synthesizer written, read and stepped.  The initial       *)
(* states are Apu::new run for a while with no register written and then   *)
(* programmed by a sequence of register writes.                            *)

\* register writes observed from each initial state
MaxApuWrites == 1
\* M-cycles stepped from each initial state
MaxApuCycles == 9

\* Apu::new after n >= 1 T-cycles of Apu::step with no register written:
\* the square timers reload to 8192 on the first tick and every 8192 after,
\* the wave timer to 4096
ApuAged(n) ==
    IF n = 0 THEN ApuNew
    ELSE [ApuNew EXCEPT
            !.frame_sequencer_counter = n % 8192,
            !.frame_sequencer_step = (n \div 8192) % 8,
            !.ch1.freq_timer = 8192 - ((n - 1) % 8192),
            !.ch1.duty_position = ((n - 1) \div 8192 + 1) % 8,
            !.ch2.freq_timer = 8192 - ((n - 1) % 8192),
            !.ch2.duty_position = ((n - 1) \div 8192 + 1) % 8,
            !.ch3.freq_timer = 4096 - ((n - 1) % 4096),
            !.ch3.position = ((n - 1) \div 4096 + 1) % 32]

\* T-cycles run before the program writes: none, and two T-cycles short of
\* the end of the frame sequencer's steps 2 and 7
ApuAges == {0, 24574, 65534}

\* register programs: power off; square 2 at 50% duty, volume 15, period 4;
\* square 2 with a falling envelope and length counter, period 8; square 1
\* with sweep; square 1 and the wave channel
ApuScripts ==
    { <<>>,
      <<<<65318, 128>>, <<65302, 128>>, <<65303, 240>>, <<65304, 255>>,
        <<65305, 135>>>>,
      <<<<65318, 128>>, <<65302, 63>>, <<65303, 81>>, <<65304, 254>>,
        <<65305, 199>>>>,
      <<<<65318, 128>>, <<65296, 17>>, <<65297, 192>>, <<65298, 248>>,
        <<65299, 0>>, <<65300, 132>>>>,
      <<<<65318, 128>>, <<65297, 64>>, <<65298, 240>>, <<65299, 255>>,
        <<65300, 135>>, <<65306, 128>>, <<65308, 32>>, <<65328, 18>>,
        <<65309, 255>>, <<65310, 135>>>> }

\* the registers written and read: every sound register, the unused
\* 0xFF27 and both ends of wave RAM
ApuAddrs == 65296..65319 \cup {65328, 65343}

\* values written
ApuValues == {0, 135}

\* instruction costs handed to Apu::step
ApuCycles == {1, 2}

\* the trigger observation of one square channel after a register write:
\* a write with bit 7 set to the channel's control register, with the power
\* and the channel's DAC on, is a trigger
since_write(sn, powered, ch, is_control, value) ==
    IF is_control /\ powered /\ And(value, 128) # 0 /\ ch.dac_enabled
    THEN [ticks |-> 0, freq |-> channel_freq(ch)]
    ELSE IF sn.ticks >= 0 /\ channel_freq(ch) = sn.freq THEN sn
    ELSE NoTrigger

\* the trigger observation of one square channel after n T-cycles
since_ticks(sn, ch, n) ==
    IF sn.ticks >= 0 /\ channel_freq(ch) = sn.freq
    THEN [sn EXCEPT !.ticks = sn.ticks + n]
    ELSE NoTrigger

\* Apu::write_byte together with the trigger observation
apu_written(st, addr, value) ==
    The({[apu |-> b,
          since |-> [ch1 |-> since_write(st.since.ch1, st.apu.enabled, b.ch1,
                                         addr = 65300, value),
                     ch2 |-> since_write(st.since.ch2, st.apu.enabled, b.ch2,
                                         addr = 65305, value)]] :
            b \in {apu_write_byte(st.apu, addr, value)}})

RECURSIVE ApuRun(_, _)
\* a register program applied write by write
ApuRun(st, script) ==
    IF script = <<>> THEN st
    ELSE The({ApuRun(st1, Tail(script)) :
                 st1 \in {apu_written(st, script[1][1], script[1][2])}})

ApuStarts ==
    {ApuRun([apu |-> ApuAged(n),
             since |-> [ch1 |-> NoTrigger, ch2 |-> NoTrigger]], script) :
        n \in ApuAges, script \in ApuScripts}

ApuIdle ==
    UNCHANGED <<reg, m, halted, ime, enable_ime_next, stopped, STOP_CYCLES,
                ie, if_, hram, timer, ppu, serial, prev, fed, serviced, irq,
                af_in, af_out, bus, fault, overflow_checks, sink, chan>>

InitApu ==
    /\ \E st \in ApuStarts : apu = st.apu /\ since = st.since /\ pre = st.apu
    /\ reg = RegisterNew
    /\ m = 0
    /\ halted = FALSE
    /\ ime = FALSE
    /\ enable_ime_next = FALSE
    /\ stopped = FALSE
    /\ STOP_CYCLES = 0
    /\ ie = 0
    /\ if_ = 0
    /\ hram = <<>>
    /\ timer = TimerNew
    /\ ppu = PpuNew
    /\ serial = SerialNew
    /\ NoObservation
    /\ irq = 0
    /\ total = 0
    /\ af_in = 0
    /\ af_out = -1
    /\ bus = BusNew(cartridge_load(0, 32768))
    /\ fault = FALSE
    /\ overflow_checks = FALSE
    /\ sink = <<>>
    /\ chan = ChannelNew

\* Apu::write_byte(addr, value)
ApuWrite ==
    /\ steps < MaxApuWrites
    /\ \E addr \in ApuAddrs, value \in ApuValues :
          \E st \in {apu_written([apu |-> apu, since |-> since], addr, value)} :
             /\ apu' = st.apu
             /\ since' = st.since
             /\ kind' = "write"
             /\ op' = addr
             /\ ret' = value
    /\ pre' = apu
    /\ steps' = steps + 1
    /\ UNCHANGED total
    /\ ApuIdle

\* Apu::read_byte(addr), after a write or a step
ApuRead ==
    /\ kind # "read"
    /\ \E addr \in ApuAddrs :
          /\ kind' = "read"
          /\ op' = addr
          /\ ret' = apu_read_byte(apu, addr)
    /\ pre' = apu
    /\ UNCHANGED <<apu, since, steps, total>>
    /\ ApuIdle

\* Apu::step(cycles)
ApuStep ==
    /\ \E cycles \in ApuCycles :
          /\ total + cycles <= MaxApuCycles
          /\ \E b \in {apu_step(apu, cycles)} :
                /\ apu' = b
                /\ since' = [ch1 |-> since_ticks(since.ch1, b.ch1, 4 * cycles),
                             ch2 |-> since_ticks(since.ch2, b.ch2, 4 * cycles)]
          /\ total' = total + cycles
          /\ ret' = cycles
    /\ kind' = "step"
    /\ op' = -1
    /\ pre' = apu
    /\ UNCHANGED steps
    /\ ApuIdle

NextApu == ApuWrite \/ ApuRead \/ ApuStep

SpecApu == InitApu /\ [][NextApu]_vars

----------------------------------------------------------------------------
(* SpecPower : the synthesizer switched off and on through 0xFF26, with    *)
(* the volume, panning and channel registers written and read around it.   *)

\* writes and steps observed from each initial state
MaxPowerOps == 3

\* the writes: power off and on, volume, panning, square 2's envelope and
\* trigger
PowerWrites ==
    {<<65318, 0>>, <<65318, 128>>, <<65316, 119>>, <<65317, 255>>,
     <<65303, 240>>, <<65305, 135>>}

\* the registers read: volume, panning, power
PowerReads == {65316, 65317, 65318}

\* the control register of each channel and its status bit in 0xFF26
ChannelControl == [ch1 |-> 65300, ch2 |-> 65305, ch3 |-> 65310]

ChannelStatus == [ch1 |-> 1, ch2 |-> 2, ch3 |-> 4]

\* what is remembered of the writes: whether the power was ever switched
\* off, and the registers written and channels triggered with the power on
\* since it last was
power_history(h, a, addr, value) ==
    IF addr = 65318 /\ value < 128
    THEN [cycled |-> TRUE, written |-> {}, triggered |-> {}]
    ELSE IF ~a.enabled THEN h
    ELSE [h EXCEPT
            !.written = @ \cup {addr},
            !.triggered = @ \cup {c \in DOMAIN ChannelControl :
                                     ChannelControl[c] = addr /\ value >= 128}]

InitPower ==
    /\ \E st \in ApuStarts : apu = st.apu /\ since = st.since /\ pre = st.apu
    /\ prev = [cycled |-> FALSE, written |-> {}, triggered |-> {}]
    /\ kind = "none"
    /\ op = -1
    /\ ret = 0
    /\ fed = [timer |-> 0, ppu |-> 0, serial |-> 0]
    /\ serviced = 0
    /\ steps = 0
    /\ reg = RegisterNew
    /\ m = 0
    /\ halted = FALSE
    /\ ime = FALSE
    /\ enable_ime_next = FALSE
    /\ stopped = FALSE
    /\ STOP_CYCLES = 0
    /\ ie = 0
    /\ if_ = 0
    /\ hram = <<>>
    /\ timer = TimerNew
    /\ ppu = PpuNew
    /\ serial = SerialNew
    /\ irq = 0
    /\ total = 0
    /\ af_in = 0
    /\ af_out = -1
    /\ bus = BusNew(cartridge_load(0, 32768))
    /\ fault = FALSE
    /\ overflow_checks = FALSE
    /\ sink = <<>>
    /\ chan = ChannelNew

PowerIdle ==
    UNCHANGED <<reg, m, halted, ime, enable_ime_next, stopped, STOP_CYCLES,
                ie, if_, hram, timer, ppu, serial, fed, serviced, irq,
                total, af_in, af_out, bus, fault, overflow_checks, sink,
                chan, since>>

\* Apu::write_byte(addr, value)
PowerWrite ==
    /\ steps < MaxPowerOps
    /\ \E w \in PowerWrites :
          /\ apu' = apu_write_byte(apu, w[1], w[2])
          /\ prev' = power_history(prev, apu, w[1], w[2])
          /\ kind' = "write"
          /\ op' = w[1]
          /\ ret' = w[2]
    /\ pre' = apu
    /\ steps' = steps + 1
    /\ PowerIdle

\* Apu::read_byte(addr), after a write or a step
PowerRead ==
    /\ kind # "read"
    /\ \E addr \in PowerReads :
          /\ kind' = "read"
          /\ op' = addr
          /\ ret' = apu_read_byte(apu, addr)
    /\ pre' = apu
    /\ UNCHANGED <<apu, prev, steps>>
    /\ PowerIdle

\* Apu::step(1)
PowerStep ==
    /\ steps < MaxPowerOps
    /\ apu' = apu_step(apu, 1)
    /\ kind' = "step"
    /\ op' = -1
    /\ ret' = 1
    /\ pre' = apu
    /\ steps' = steps + 1
    /\ UNCHANGED prev
    /\ PowerIdle

NextPower == PowerWrite \/ PowerRead \/ PowerStep

SpecPower == InitPower /\ [][NextPower]_vars

----------------------------------------------------------------------------
(* SpecMix : the amplitude deltas Apu::step hands to the two resampling    *)
(* buffers, with the panning and power registers written between steps.    *)

\* writes and steps observed from each initial state
MaxMixOps == 4

\* the panning bit of each channel for each side
PanLeft == [ch1 |-> 16, ch2 |-> 32, ch3 |-> 64]

PanRight == [ch1 |-> 1, ch2 |-> 2, ch3 |-> 4]

\* the channels as the fields of the synthesizer
ChannelOf(a) == [ch1 |-> a.ch1, ch2 |-> a.ch2, ch3 |-> a.ch3]

\* the sum of f over the channels
OverChannels(f) == f["ch1"] + f["ch2"] + f["ch3"]

\* Apu::step, the add_delta calls of one T-cycle: a is the synthesizer
\* before the three ticks and b after them; a channel whose tick returned
\* Some(amp_delta) has last_amp changed by amp_delta, the others by 0
apu_add_deltas(a, b, out) ==
    LET amp_delta == [c \in DOMAIN PanLeft |->
                         ChannelOf(b)[c].last_amp - ChannelOf(a)[c].last_amp]
    IN [left |-> out.left + OverChannels(
                    [c \in DOMAIN PanLeft |->
                        IF And(b.nr51, PanLeft[c]) # 0 THEN amp_delta[c]
                        ELSE 0]),
        right |-> out.right + OverChannels(
                    [c \in DOMAIN PanRight |->
                        IF And(b.nr51, PanRight[c]) # 0 THEN amp_delta[c]
                        ELSE 0])]

RECURSIVE apu_ticks_out(_, _, _)
\* Apu::step, the loop over t_cycles with the deltas it delivers
apu_ticks_out(a, out, n) ==
    IF n = 0 THEN [apu |-> a, out |-> out]
    ELSE The({apu_ticks_out(b, apu_add_deltas(a, b, out), n - 1) :
                 b \in {apu_tick(a)}})

\* Apu::step(cycles) with the running sums of the deltas delivered
apu_step_out(a, out, cycles) == apu_ticks_out(a, out, (cycles * 4) % 256)

\* the writes: panning to both sides for square 2, to the left only, to
\* none; power off and on
MixWrites ==
    {<<65317, 34>>, <<65317, 32>>, <<65317, 0>>, <<65318, 0>>,
     <<65318, 128>>}

\* instruction costs handed to Apu::step
MixCycles == {2, 4}

\* a programmed synthesizer that has delivered nothing yet: no script
\* writes the panning register.  prev keeps the running sums of the deltas
\* delivered to each side, total the T-cycles stepped, and irq the T-cycles
\* stepped before the last write
InitMix ==
    /\ \E st \in ApuStarts : apu = st.apu /\ since = st.since /\ pre = st.apu
    /\ prev = [left |-> 0, right |-> 0]
    /\ kind = "none"
    /\ op = -1
    /\ ret = 0
    /\ fed = [timer |-> 0, ppu |-> 0, serial |-> 0]
    /\ serviced = 0
    /\ steps = 0
    /\ reg = RegisterNew
    /\ m = 0
    /\ halted = FALSE
    /\ ime = FALSE
    /\ enable_ime_next = FALSE
    /\ stopped = FALSE
    /\ STOP_CYCLES = 0
    /\ ie = 0
    /\ if_ = 0
    /\ hram = <<>>
    /\ timer = TimerNew
    /\ ppu = PpuNew
    /\ serial = SerialNew
    /\ irq = 0
    /\ total = 0
    /\ af_in = 0
    /\ af_out = -1
    /\ bus = BusNew(cartridge_load(0, 32768))
    /\ fault = FALSE
    /\ overflow_checks = FALSE
    /\ sink = <<>>
    /\ chan = ChannelNew

MixIdle ==
    UNCHANGED <<reg, m, halted, ime, enable_ime_next, stopped, STOP_CYCLES,
                ie, if_, hram, timer, ppu, serial, fed, serviced, af_in,
                af_out, bus, fault, overflow_checks, sink, chan, since>>

\* Apu::write_byte to the panning or the power register
MixWrite ==
    /\ steps < MaxMixOps
    /\ \E w \in MixWrites :
          /\ apu' = apu_write_byte(apu, w[1], w[2])
          /\ kind' = "write"
          /\ op' = w[1]
          /\ ret' = w[2]
    /\ pre' = apu
    /\ irq' = total
    /\ steps' = steps + 1
    /\ UNCHANGED <<prev, total>>
    /\ MixIdle

\* Apu::step(cycles)
MixStep ==
    /\ steps < MaxMixOps
    /\ \E cycles \in MixCycles :
         \E r \in {apu_step_out(apu, prev, cycles)} :
            /\ apu' = r.apu
            /\ prev' = r.out
            /\ total' = total + 4 * cycles
            /\ ret' = cycles
    /\ kind' = "step"
    /\ op' = -1
    /\ pre' = apu
    /\ steps' = steps + 1
    /\ UNCHANGED irq
    /\ MixIdle

NextMix == MixWrite \/ MixStep

SpecMix == InitMix /\ [][NextMix]_vars

----------------------------------------------------------------------------
(* SpecSeq : the frame sequencer stepped across each of its eight steps,   *)
(* with every length counter, both envelopes and the sweep unit running,   *)
(* and with the sweep unit alone in each of its configurations.            *)

\* M-cycles stepped from each initial state
MaxSeqCycles == 4

\* T-cycles run before the program writes: none, and one M-cycle short of
\* the end of each of the eight steps
SeqAges == {0} \cup {k * 8192 - 4 : k \in 1..8}

\* sweep registers: period 1 with shift 0, shift 1 and shift 1 subtracting;
\* period 2 with shift 0 and shift 1; period 0 with shift 1
SweepValues == {16, 17, 25, 32, 33, 1}

\* frequencies the sweep starts from
SweepFreqs == {256, 1024, 1536, 2047}

\* register programs: power on, the sweep register, square 1 triggered at
\* volume 15 with the frequency chosen
SweepScripts ==
    { <<<<65318, 128>>, <<65296, nr10>>, <<65298, 240>>,
        <<65299, f % 256>>, <<65300, 128 + f \div 256>>>> :
          nr10 \in SweepValues, f \in SweepFreqs }

\* register programs: none; power on, square 1 with sweep period 2 shift 1,
\* envelope period 2 and length counter; square 2 with envelope period 1
\* and length counter; the wave channel with length counter
SeqScripts ==
    SweepScripts \cup
    { <<>>,
      <<<<65318, 128>>,
        <<65296, 33>>, <<65297, 128>>, <<65298, 242>>, <<65299, 0>>,
        <<65300, 196>>,
        <<65302, 128>>, <<65303, 241>>, <<65304, 0>>, <<65305, 199>>,
        <<65306, 128>>, <<65307, 254>>, <<65308, 32>>, <<65309, 0>>,
        <<65310, 199>>>> }

SeqCycles == {1, 2, 3}

InitSeq ==
    /\ \E n \in SeqAges, script \in SeqScripts :
          \E st \in {ApuRun([apu |-> ApuAged(n),
                             since |-> [ch1 |-> NoTrigger, ch2 |-> NoTrigger]],
                            script)} :
             /\ apu = st.apu
             /\ since = st.since
             /\ pre = st.apu
             /\ total = n
    /\ reg = RegisterNew
    /\ m = 0
    /\ halted = FALSE
    /\ ime = FALSE
    /\ enable_ime_next = FALSE
    /\ stopped = FALSE
    /\ STOP_CYCLES = 0
    /\ ie = 0
    /\ if_ = 0
    /\ hram = <<>>
    /\ timer = TimerNew
    /\ ppu = PpuNew
    /\ serial = SerialNew
    /\ NoObservation
    /\ irq = 0
    /\ af_in = 0
    /\ af_out = -1
    /\ bus = BusNew(cartridge_load(0, 32768))
    /\ fault = FALSE
    /\ overflow_checks = FALSE
    /\ sink = <<>>
    /\ chan = ChannelNew

\* Apu::step(cycles); total counts the T-cycles elapsed since Apu::new
SeqStep ==
    /\ \E cycles \in SeqCycles :
          /\ steps + cycles <= MaxSeqCycles
          /\ \E b \in {apu_step(apu, cycles)} :
                /\ apu' = b
                /\ since' = [ch1 |-> since_ticks(since.ch1, b.ch1, 4 * cycles),
                             ch2 |-> since_ticks(since.ch2, b.ch2, 4 * cycles)]
          /\ total' = total + 4 * cycles
          /\ steps' = steps + cycles
          /\ ret' = cycles
    /\ kind' = "step"
    /\ op' = -1
    /\ pre' = apu
    /\ ApuIdle

NextSeq == SeqStep

SpecSeq == InitSeq /\ [][NextSeq]_vars

----------------------------------------------------------------------------
(* SpecAudio : the frame loop handing one batch of samples per frame to    *)
(* the audio callback, which runs on the audio thread at its own pace.     *)

\* frames observed from each initial state
MaxFrames == 7

\* SyncSender::try_send filling the queue whatever its capacity
try_send_unbounded(c, batch, bound) ==
    IF c.receiver
    THEN [chan |-> [c EXCEPT !.queue = Append(c.queue, batch)], ok |-> TRUE]
    ELSE [chan |-> c, ok |-> FALSE]

\* SyncSender::try_send on a channel of the given capacity: an error, and
\* the batch dropped, when the receiver is gone or the queue is full
try_send(c, batch, bound) ==
    IF c.receiver /\ Len(c.queue) < bound
    THEN [chan |-> [c EXCEPT !.queue = Append(c.queue, batch)], ok |-> TRUE]
    ELSE [chan |-> c, ok |-> FALSE]

\* Receiver::try_recv().unwrap_or_default() : the oldest batch, or an empty
\* one (0) when none is queued
try_recv(c) ==
    IF c.queue = <<>> THEN [chan |-> c, batch |-> 0]
    ELSE [chan |-> [c EXCEPT !.queue = Tail(c.queue)], batch |-> Head(c.queue)]

AudioIdle ==
    UNCHANGED <<reg, m, halted, ime, enable_ime_next, stopped, STOP_CYCLES,
                ie, if_, hram, timer, ppu, serial, prev, fed, serviced, irq,
                total, af_in, af_out, bus, fault, overflow_checks, sink, apu,
                since>>

InitAudio ==
    /\ CpuAtPowerOn
    /\ timer = TimerNew
    /\ ppu = PpuNew
    /\ pre = ChannelNew

\* Gameboy::run, one pass of the frame loop: the batch of frame steps + 1
\* is offered to the channel and the result of the offer is ignored
FrameStep ==
    /\ steps < MaxFrames
    /\ \E r \in {try_send(chan, steps + 1, ChannelBound)} :
          /\ chan' = r.chan
          /\ ret' = IF r.ok THEN 1 ELSE 0
    /\ kind' = "frame"
    /\ op' = steps + 1
    /\ pre' = chan
    /\ steps' = steps + 1
    /\ AudioIdle

\* main, the output callback: one batch taken if one is queued
AudioCallback ==
    /\ chan.receiver
    /\ \E r \in {try_recv(chan)} :
          /\ chan' = r.chan
          /\ ret' = r.batch
    /\ kind' = "callback"
    /\ op' = -1
    /\ pre' = chan
    /\ UNCHANGED steps
    /\ AudioIdle

\* the audio stream torn down: the callback and its receiver are dropped,
\* and the queued batches with them
ReceiverDropped ==
    /\ chan.receiver
    /\ chan' = [queue |-> <<>>, receiver |-> FALSE]
    /\ kind' = "hangup"
    /\ op' = -1
    /\ ret' = 0
    /\ pre' = chan
    /\ UNCHANGED steps
    /\ AudioIdle

NextAudio == FrameStep \/ AudioCallback \/ ReceiverDropped

SpecAudio == InitAudio /\ [][NextAudio]_vars

----------------------------------------------------------------------------
(* Properties of the stepping loop, under Spec.                            *)

\* the interrupt bits in priority order
InterruptBits == {1, 2, 4, 8, 16}

\* the lowest-numbered bit set in a non-zero pending mask
LowestBit(pending) ==
    CHOOSE b \in InterruptBits :
        /\ And(pending, b) # 0
        /\ \A c \in InterruptBits : c < b => And(pending, c) = 0

\* the vector address of an interrupt bit
VectorOf(b) ==
    CASE b = 1 -> 64 [] b = 2 -> 72 [] b = 4 -> 80 [] b = 8 -> 88
      [] b = 16 -> 96

\* IE & IF in the state the last step began in
PendingAtBegin == And(And(pre.ie, pre.if_), 31)

\* C1 : a step that begins with ime set and IE & IF # 0 performs interrupt
\* dispatch: it services the lowest pending bit, clears only that bit of
\* IF, clears ime, pushes the pc it began with, jumps to the bit's vector
\* and returns 5 cycles.
C1_DispatchOnPending ==
    (kind # "none" /\ pre.ime /\ PendingAtBegin # 0) =>
        LET b == LowestBit(PendingAtBegin)
        IN /\ kind = "dispatch"
           /\ serviced = b
           /\ if_ = AndNot(pre.if_, b)
           /\ ~ime
           /\ reg.pc = VectorOf(b)
           /\ reg.sp = Wrap16(pre.sp + 65534)
           /\ reg.sp \in 65408..65533 =>
                  bus_read_word(Cur, reg.sp, 0, 0) = pre.pc
           /\ ret = 5

\* C2 : on every step the timer, the display controller and the serial
\* port are each advanced by exactly the cycle cost the step returns.
C2_PeripheralsFedReturnedCost ==
    kind # "none" =>
        /\ fed.timer = ret
        /\ fed.ppu = ret
        /\ fed.serial = ret

\* C3 : after the enable-interrupts instruction (0xFB) has executed with
\* ime clear, the step that follows it is never an interrupt dispatch.
C3_NoDispatchRightAfterEi ==
    ~(/\ kind = "dispatch"
      /\ prev.kind = "instr"
      /\ prev.op = 251
      /\ ~prev.ime)

\* C4 : a halted step leaves the halted state when IE & IF # 0 as the step
\* begins and stays halted when IE & IF = 0 after its peripherals advanced;
\* waking with ime clear services nothing and leaves pc and sp unchanged.
C4_HaltWake ==
    (kind = "halted" /\ pre.halted) =>
        /\ PendingAtBegin # 0 => ~halted
        /\ (And(ie, if_) = 0 /\ serviced = 0) => halted
        /\ (~halted /\ ~pre.ime /\ ~pre.enable_ime_next) =>
               /\ serviced = 0
               /\ reg.pc = pre.pc
               /\ reg.sp = pre.sp

\* C10 : in every reachable state the low nibble of the flag register f is
\* zero.
C10_FlagLowNibbleZero == And(reg.f, 15) = 0

\* POP AF has loaded f from a stack word whose low byte was 0xFF
C10_Witness == kind = "instr" /\ op = 241 /\ reg.f = 240

----------------------------------------------------------------------------
(* Properties of the timer, under SpecTimer.                               *)

\* the tap bit of the free-running counter a mode register selects
TapOf(tac) == <<9, 3, 5, 7>>[(tac % 4) + 1]

\* the last operation was one M-cycle of update crossing an enabled
\* falling edge of the tap bit with the event counter at 0xFF and no
\* reload in flight
OverflowTick ==
    /\ kind = "update"
    /\ op = 1
    /\ pre.tima = 255
    /\ pre.tima_reload_delay = None
    /\ pre.tac >= 4
    /\ Bit(pre.div_counter, TapOf(pre.tac)) = 1
    /\ Bit((pre.div_counter + 4) % 65536, TapOf(pre.tac)) = 0

\* C5 : when the event counter is 0xFF and an enabled falling edge of the
\* tap bit occurs, the event counter reads 0 with the timer interrupt not
\* yet raised during the 4-cycle gap that follows the edge.
C5_OverflowGap ==
    OverflowTick =>
        /\ timer.tima = 0
        /\ irq = 0
        /\ timer.tima_reload_delay # None

\* the last operation advanced the timer by 16 T-cycles (4 M-cycles) with
\* the mode register at 0b101 and the event counter below 0xFF
SixteenCyclesFastTap ==
    /\ kind = "update"
    /\ op = 4
    /\ pre.tac = 5
    /\ pre.tima < 255

\* C6, as stated : with the mode register at 0b101 and the event counter
\* below 0xFF, 16 cycles increment the event counter by exactly 1.
C6_AsStated == SixteenCyclesFastTap => timer.tima = pre.tima + 1

\* C6 : with the mode register at 0b101, the event counter below 0xFF and
\* no overflow reload in flight, 16 cycles increment the event counter by
\* exactly 1.
C6_SixteenCyclesOneIncrement ==
    (SixteenCyclesFastTap /\ pre.tima_reload_delay = None) =>
        timer.tima = pre.tima + 1

\* 16 cycles have incremented the event counter with no reload in flight
C6_Witness ==
    /\ SixteenCyclesFastTap
    /\ pre.tima_reload_delay = None
    /\ timer.tima = pre.tima + 1
    /\ irq = 0

\* the last operation was a write of the divider register
DivWrite == kind = "write" /\ op = 65284

\* the timer was enabled and its tap bit high before the last operation
TapHighEnabled == pre.tac >= 4 /\ Bit(pre.div_counter, TapOf(pre.tac)) = 1

\* C7 : writing the divider register zeroes the free-running counter and
\* the visible divider; the event counter increments exactly once (0xFF
\* overflows to 0 and arms the reload) if the timer is enabled and the tap
\* bit was high, and is unchanged otherwise.
C7_DivWrite ==
    DivWrite =>
        /\ timer.div_counter = 0
        /\ timer.div = 0
        /\ timer.tma = pre.tma
        /\ timer.tac = pre.tac
        /\ IF TapHighEnabled
           THEN IF pre.tima = 255
                THEN timer.tima = 0 /\ timer.tima_reload_delay = Some(4)
                ELSE /\ timer.tima = pre.tima + 1
                     /\ timer.tima_reload_delay = pre.tima_reload_delay
           ELSE /\ timer.tima = pre.tima
                /\ timer.tima_reload_delay = pre.tima_reload_delay

\* a divider write with the tap bit high has overflowed the event counter
C7_Witness ==
    /\ DivWrite
    /\ TapHighEnabled
    /\ pre.tima = 255
    /\ timer.tima = 0
    /\ timer.div_counter = 0

\* the last operation was a write of the mode register
TacWrite == kind = "write" /\ op = 65287

\* the write leaves the timer disabled or on a tap bit that is low
TapLowOrDisabled ==
    \/ (ret % 8) < 4
    \/ Bit(pre.div_counter, TapOf(ret % 8)) = 0

\* C27 : a write to the mode register increments the event counter exactly
\* once (0xFF overflows to 0 and arms the reload) when the timer was enabled
\* with its tap bit high before the write and is disabled or on a low tap
\* bit after it, leaves the event counter unchanged in every other case,
\* and stores only the low 3 bits of the value written.
C27_TacWrite ==
    TacWrite =>
        /\ timer.tac = ret % 8
        /\ timer.div_counter = pre.div_counter
        /\ timer.div = pre.div
        /\ timer.tma = pre.tma
        /\ IF TapHighEnabled /\ TapLowOrDisabled
           THEN IF pre.tima = 255
                THEN timer.tima = 0 /\ timer.tima_reload_delay = Some(4)
                ELSE /\ timer.tima = pre.tima + 1
                     /\ timer.tima_reload_delay = pre.tima_reload_delay
           ELSE /\ timer.tima = pre.tima
                /\ timer.tima_reload_delay = pre.tima_reload_delay

\* the timer stays enabled and the write moves it from a high tap bit to a
\* low one, which increments the event counter
C27_Witness ==
    /\ TacWrite
    /\ pre.tac = 5
    /\ ret = 6
    /\ Bit(pre.div_counter, 3) = 1
    /\ Bit(pre.div_counter, 5) = 0
    /\ pre.tima < 255
    /\ timer.tima = pre.tima + 1
    /\ timer.tac = 6

----------------------------------------------------------------------------
(* Properties of the display timing, under SpecPpu.                        *)

\* C8 : with the LCD enabled, after each update ly is within 0..153 and
\* ly_cycles within 0..455, ly has advanced by 1 for every 456 cycles
\* delivered (wrapping from 153 to 0), and the vblank request is produced
\* on exactly the update in which ly becomes 144.
C8_LineTiming ==
    (kind = "update" /\ lcd_enabled(ppu)) =>
        /\ ppu.ly \in 0..153
        /\ ppu.ly_cycles \in 0..455
        /\ ppu.ly * 456 + ppu.ly_cycles = total
        /\ And(irq, 1) = 1 <=> (pre.ly = 143 /\ ppu.ly = 144)

\* the update in which ly wraps from 153 to 0, a whole frame after power-on
C8_Witness ==
    /\ kind = "update"
    /\ lcd_enabled(ppu)
    /\ pre.ly = 153
    /\ ppu.ly = 0
    /\ total < 456

----------------------------------------------------------------------------
(* Properties of the register file, under SpecReg.                         *)

\* C9 : for every 16-bit value v, set_af(v) followed by get_af() returns
\* v & 0xFFF0, and after set_af the low nibble of f is zero.
C9_SetAfMasksLowNibble ==
    af_out # -1 =>
        /\ af_out = And(af_in, 65520)
        /\ And(reg.f, 15) = 0

----------------------------------------------------------------------------
(* Properties of the ALU, under SpecAlu.                                   *)

\* the carry flag coming into the last ALU operation, as 0 or 1
CarryIn == (pre.f \div 16) % 2

\* the carry-in an operation consumes: adc and sbc only
CarryUsed == IF kind \in {"adc", "sbc"} THEN CarryIn ELSE 0

\* the operand of the last ALU operation: 1 for inc and dec
Operand == IF kind \in {"inc", "dec"} THEN 1 ELSE pre.value

\* the last ALU operation was of the subtraction family
Subtracts == kind \in {"sub", "sbc", "cp", "dec"}

\* the unbounded sum or difference of the last ALU operation
Exact ==
    IF Subtracts
    THEN pre.a - Operand - CarryUsed
    ELSE pre.a + Operand + CarryUsed

\* the same over the low nibbles
ExactLow ==
    IF Subtracts
    THEN (pre.a % 16) - (Operand % 16) - CarryUsed
    ELSE (pre.a % 16) + (Operand % 16) + CarryUsed

\* flag bit b of the flag register is set
FlagSet(b) == (reg.f \div b) % 2 = 1

\* C11 : add, adc, sub, sbc and cp produce the result modulo 256 with Zero
\* iff the result is 0, Negative exactly for the subtraction family,
\* HalfCarry iff a carry or borrow crosses bit 3 and Carry iff one crosses
\* bit 7, carry-in included; cp leaves the accumulator unchanged; inc and
\* dec set Zero, Negative and HalfCarry the same way and leave Carry as it
\* was.
C11_AluFlags ==
    kind \in AluOps =>
        /\ reg.a = IF kind = "cp" THEN pre.a ELSE Exact % 256
        /\ FlagSet(128) <=> (Exact % 256 = 0)
        /\ FlagSet(64) <=> Subtracts
        /\ FlagSet(32) <=> (ExactLow < 0 \/ ExactLow > 15)
        /\ FlagSet(16) <=> IF kind \in {"inc", "dec"}
                           THEN CarryIn = 1
                           ELSE Exact < 0 \/ Exact > 255
        /\ reg.f % 16 = 0

\* adc with the carry-in alone carrying across bit 3: 0x0F + 0x00 + 1
C11_Witness ==
    /\ kind = "adc"
    /\ pre.a = 15
    /\ pre.value = 0
    /\ CarryIn = 1
    /\ reg.a = 16
    /\ reg.f = 32

----------------------------------------------------------------------------
(* Properties of the bus, under SpecBus.                                   *)

\* C12 : every byte and word access to the bus completes, and every read
\* returns a value of its width, whatever the address, the cartridge and
\* the build.
C12_NoAccessFails ==
    /\ ~fault
    /\ kind = "read" => ret \in Byte
    /\ kind = "read_word" => ret \in 0..65535

\* C13 : after a write of v to 0xFF46, byte i of sprite memory is the byte
\* that was readable at (v << 8) + i before the write, for i in 0..159.
C13_DmaCopies ==
    (kind = "write" /\ op = 65350 /\ ~fault) =>
        \A i \in 0..159 :
            \E r \in {bus_read(pre, ret * 256 + i)} :
                r.ok => bus.oam[i] = r.value

----------------------------------------------------------------------------
(* Properties of the serial port, under SpecSerial.                        *)

\* a write to the control register that starts a transfer
TransferStarted == kind = "write" /\ op = 65282 /\ And(ret, 129) = 129

\* C14 : a write to the serial control register with bits 7 and 0 set
\* hands the data byte to the sink exactly once, and is eventually followed
\* by the serial interrupt (IF bit 0x08).
C14_TransferCompletes ==
    /\ [](TransferStarted => sink = pre.sink \o <<pre.data>>)
    /\ [](TransferStarted => <>(And(if_, 8) = 8))

----------------------------------------------------------------------------
(* Properties of the synthesizer, under SpecApu.                           *)

\* the sound registers other than the power register
GatedRegisters == (65296..65319) \ {65318}

\* wave RAM
WaveRam == 65328..65343

\* C15 : with the master enable off, a write to a sound register other
\* than 0xFF26 and wave RAM changes nothing and a read of one returns
\* 0xFF; the power register and wave RAM are still written and read, and
\* bit 7 of the power register reads back the master enable.
C15_PoweredOff ==
    /\ (kind = "write" /\ ~pre.enabled /\ op \in GatedRegisters) => apu = pre
    /\ (kind = "read" /\ ~apu.enabled /\ op \in GatedRegisters) => ret = 255
    /\ (kind = "write" /\ ~pre.enabled /\ op = 65318) =>
           apu.enabled = (ret >= 128)
    /\ (kind = "write" /\ ~pre.enabled /\ op \in WaveRam) =>
           apu.ch3.wave_ram = [pre.ch3.wave_ram EXCEPT ![op - 65328] = ret]
    /\ (kind = "read" /\ ~apu.enabled /\ op \in WaveRam) =>
           ret = apu.ch3.wave_ram[op - 65328]
    /\ (kind = "read" /\ op = 65318) => (ret >= 128) = apu.enabled

\* a trigger write to square 2, ignored because the power is off
C15_Witness ==
    /\ kind = "write"
    /\ op = 65305
    /\ ret = 135
    /\ ~pre.enabled
    /\ apu = pre

\* the two square channels with their trigger observations
Squares == {[ch |-> apu.ch1, sn |-> since.ch1], [ch |-> apu.ch2, sn |-> since.ch2]}

\* C16 : after a step, an enabled square channel with its DAC on has the
\* amplitude DUTY_TABLE[duty][position] * volume * 256; from a trigger on,
\* while the frequency stays as triggered, the duty position is the number
\* of whole periods of (2048 - frequency) * 4 T-cycles ticked since,
\* modulo 8; at 50% duty and volume 15 the amplitude is 0 at positions 0
\* and 1 and 3840 at position 4.
C16_SquareWave ==
    \A q \in Squares :
        /\ (kind = "step" /\ q.ch.enabled /\ q.ch.dac_enabled) =>
               /\ q.ch.last_amp =
                      DUTY_TABLE[q.ch.duty_cycle + 1][q.ch.duty_position + 1]
                          * q.ch.current_volume * 256
               /\ (q.ch.duty_cycle = 2 /\ q.ch.current_volume = 15) =>
                      /\ q.ch.duty_position \in {0, 1} => q.ch.last_amp = 0
                      /\ q.ch.duty_position = 4 => q.ch.last_amp = 3840
        /\ q.sn.ticks >= 0 =>
               q.ch.duty_position =
                   (q.sn.ticks \div ((2048 - q.sn.freq) * 4)) % 8

\* square 2 at 50% duty and volume 15, four periods after its trigger
C16_Witness ==
    /\ kind = "step"
    /\ apu.ch2.enabled
    /\ apu.ch2.dac_enabled
    /\ apu.ch2.duty_cycle = 2
    /\ apu.ch2.current_volume = 15
    /\ since.ch2 = [ticks |-> 16, freq |-> 2047]
    /\ apu.ch2.duty_position = 4
    /\ apu.ch2.last_amp = 3840

----------------------------------------------------------------------------
(* Properties of the audio hand-off, under SpecAudio.                      *)

----------------------------------------------------------------------------
(* Properties of the instruction costs and the power-on flags, under Spec.  *)

\* C18 : every executed instruction, primary or 0xCB-prefixed, has set its
\* own cost of at least one machine cycle, so the cost run_cycle returns for
\* an executed instruction is never 0.
C18_CostSetByInstruction == kind = "instr" => ret >= 1

\* the eleven opcodes the hardware leaves undefined
UndefinedOpcodes == UndefinedAsNop \cup {244}

\* C19 : an undefined opcode behaves as a no-op: the step that executes it
\* leaves the machine exactly as the step executing NOP (0x00) from the same
\* state would, the program counter one further and nothing else changed.
C19_UndefinedIsNoOp ==
    [][(kind' = "instr" /\ op' \in UndefinedOpcodes)
          => \E r \in {run_instruction(latch_ime(Cur), 0, 0, 0)} :
                Cur' = r.s /\ ret' = r.ret]_vars

\* C20 : a newly created processor has f = 0xB0 (Zero, HalfCarry and Carry
\* active, Negative clear), and clearing Zero on it leaves f = 0x30.
C20_PowerOnFlags ==
    (kind = "none" /\ ~stopped)
        => /\ reg.f = 176
           /\ flag_is_active(Cur, FlagZero)
           /\ flag_is_active(Cur, FlagHalfCarry)
           /\ flag_is_active(Cur, FlagCarry)
           /\ ~flag_is_active(Cur, FlagNegative)
           /\ unset_flag(Cur, FlagZero).reg.f = 48

----------------------------------------------------------------------------
(* Properties of the flag helpers, under SpecFlag.                         *)

\* bit number of a flag mask
FlagBit(flag) == CHOOSE n \in 4..7 : Pow2(n) = flag

\* C21 : for every flag and every prior flag byte, set_flag leaves the named
\* bit set and unset_flag leaves it clear, each with the other three flag
\* bits as they were; reset_flags leaves f = 0; flag_is_active is true
\* exactly when the named bit of f is set.
C21_FlagHelpers ==
    /\ \A flag \in Flags :
          flag_is_active(Cur, flag) <=> Bit(reg.f, FlagBit(flag)) = 1
    /\ kind = "set_flag" => Bit(reg.f, FlagBit(op)) = 1
    /\ kind = "unset_flag" => Bit(reg.f, FlagBit(op)) = 0
    /\ kind \in {"set_flag", "unset_flag"} =>
          \A other \in Flags \ {op} :
             Bit(reg.f, FlagBit(other)) = Bit(pre.f, FlagBit(other))
    /\ kind = "reset_flags" => reg.f = 0

\* Carry set on a flag byte that had Zero and HalfCarry set and a low nibble
C21_Witness ==
    /\ kind = "set_flag"
    /\ op = FlagCarry
    /\ pre.f = 175
    /\ reg.f = 176

----------------------------------------------------------------------------
(* Properties of the display status, under SpecStat.                       *)

\* the mode that belongs to a position of the display
PositionMode(p) ==
    IF p.ly >= 144 THEN VBLANK
    ELSE IF p.ly_cycles < 80 THEN OAM_SCAN
    ELSE IF p.ly_cycles < 252 THEN PIXEL_TRANSFER
    ELSE HBLANK

\* C22 : with the LCD enabled, after every display update the mode is the
\* one that belongs to the position reached: VBlank from line 144 on,
\* otherwise OamScan for ly_cycles 0..79, PixelTransfer for 80..251 and
\* HBlank for 252..455.
C22_ModeFollowsPosition ==
    (kind = "update" /\ lcd_enabled(ppu)) => ppu.mode = PositionMode(ppu)

\* C23 : in every state with the LCD enabled, status bit 2 is set if and
\* only if ly equals lyc, also after a write to the compare register or to
\* the status register; and the update in which ly becomes equal to lyc
\* while status bit 6 is set requests the lcd-status interrupt.
C23_Coincidence ==
    /\ lcd_enabled(ppu) => (And(ppu.stat, 4) = 4 <=> ppu.ly = ppu.lyc)
    /\ (/\ kind = "update"
        /\ lcd_enabled(ppu)
        /\ ppu.ly # pre.ly
        /\ ppu.ly = ppu.lyc
        /\ And(ppu.stat, 64) = 64) => And(irq, 2) = 2

\* C24 : while the LCD-enable bit is clear, every display update leaves
\* ly = 0, ly_cycles = 0, mode = 0 and the coincidence bit clear, requests
\* no interrupt and renders no scanline: the window line counter is as it
\* was before the update.
C24_LcdOff ==
    (kind = "update" /\ ~lcd_enabled(pre)) =>
        /\ ppu.ly = 0
        /\ ppu.ly_cycles = 0
        /\ ppu.mode = 0
        /\ And(ppu.stat, 4) = 0
        /\ irq = 0
        /\ ret = 0
        /\ ppu.window_line_counter = pre.window_line_counter
        /\ ppu = [pre EXCEPT !.ly = 0, !.ly_cycles = 0, !.mode = 0,
                             !.stat = AndNot(pre.stat, 4)]

\* the LCD was switched off, with the window enabled, four cycles before the
\* end of the first scanline, and the update that would have ended the line
\* has run
C24_Witness ==
    /\ kind = "update"
    /\ ~lcd_enabled(pre)
    /\ And(pre.lcdc, 32) = 32
    /\ pre.ly = 0
    /\ pre.ly_cycles = 452
    /\ pre.mode = HBLANK
    /\ ppu.ly_cycles = 0

\* the status enable bit of a mode; PixelTransfer has none
ModeEnable(mode) ==
    CASE mode = HBLANK -> 8
      [] mode = VBLANK -> 16
      [] mode = OAM_SCAN -> 32
      [] mode = PIXEL_TRANSFER -> 0

\* the update advanced ly onto the compare line with the compare interrupt
\* enabled, which requests the lcd-status interrupt on its own
CompareRequest ==
    ppu.ly # pre.ly /\ ppu.ly = ppu.lyc /\ And(ppu.stat, 64) = 64

\* the update changed the mode to one whose status enable bit is set
ModeRequest ==
    /\ ppu.mode # pre.mode
    /\ And(pre.stat, ModeEnable(ppu.mode)) # 0

\* C25 as stated : every display update requests the lcd-status interrupt
\* for a mode change exactly when the mode changes to HBlank, VBlank or
\* OamScan with the status enable bit of that mode set.
C25_ModeInterruptAnyUpdate ==
    (kind = "update" /\ ~CompareRequest) => (And(irq, 2) = 2 <=> ModeRequest)

\* C25 : with the LCD enabled, a display update requests the lcd-status
\* interrupt for a mode change exactly when the mode changes to HBlank,
\* VBlank or OamScan with the status enable bit of that mode (0x08, 0x10,
\* 0x20) set; an update that leaves the mode unchanged requests none, so
\* each entry into a mode requests it at most once.
C25_ModeInterrupt ==
    (kind = "update" /\ lcd_enabled(pre)) =>
        /\ ModeRequest => And(irq, 2) = 2
        /\ ~CompareRequest => (And(irq, 2) = 2 <=> ModeRequest)
        /\ (ppu.mode = pre.mode /\ ~CompareRequest) => And(irq, 2) = 0

\* HBlank entered with its enable bit set and the interrupt requested
C25_Witness ==
    /\ kind = "update"
    /\ lcd_enabled(pre)
    /\ pre.mode = PIXEL_TRANSFER
    /\ ppu.mode = HBLANK
    /\ And(pre.stat, 8) = 8
    /\ irq = 2

----------------------------------------------------------------------------
(* Properties of display RAM and sprite memory, under SpecVram.            *)

\* the lock as stated: PixelTransfer with the LCD enabled
TransferLocked(p) == p.mode = PIXEL_TRANSFER /\ lcd_enabled(p)

\* the byte the display holds at addr
PpuContent(p, addr) ==
    IF addr < 65024 THEN VramGet(p.video_ram, addr - 32768)
    ELSE OamGet(p.oam, addr - 65024)

\* the byte the bus holds at addr
BusContent(b, addr) ==
    IF addr < 65024 THEN MapGet(b.video_ram, addr % 8192)
    ELSE b.oam[addr - 65024]

\* C26 : display RAM and sprite memory are locked exactly while the display
\* is in PixelTransfer with the LCD enabled: a read while locked returns
\* 0xFF and a write while locked leaves the memory as it was; a write while
\* unlocked stores the byte and a read while unlocked returns the byte
\* stored, through the display's own accessors and through the bus.
C26_TransferLock ==
    /\ kind = "read" =>
          ret = IF TransferLocked(pre.ppu) THEN 255
                ELSE PpuContent(pre.ppu, op)
    /\ kind = "write" =>
          PpuContent(ppu, op) = IF TransferLocked(pre.ppu)
                                THEN PpuContent(pre.ppu, op) ELSE ret
    /\ kind = "bus_read" =>
          ret = IF TransferLocked(pre.ppu) THEN 255
                ELSE BusContent(pre.bus, op)
    /\ kind = "bus_write" =>
          BusContent(bus, op) = IF TransferLocked(pre.ppu)
                                THEN BusContent(pre.bus, op) ELSE ret

----------------------------------------------------------------------------
(* Properties of the frame sequencer, under SpecSeq.                       *)

\* the last step took the frame sequencer across the end of a step
SeqCrossed == kind = "step" /\ pre.frame_sequencer_counter + 4 * ret >= 8192

\* the length counter of a channel after a step that did or did not clock it
LengthAfter(ch, clocked) ==
    IF clocked /\ ch.length_enable /\ ch.length_timer > 0
    THEN ch.length_timer - 1
    ELSE ch.length_timer

\* the envelope and the sweep unit of a square channel
EnvelopeOf(ch) == <<ch.env_timer, ch.current_volume>>

SweepOf(ch) == <<ch.sweep_timer, ch.shadow_freq, ch.freq_low, ch.freq_high>>

\* C28 : the frame sequencer step stays in 0..7 and advances by 1 modulo 8
\* exactly once per 8192 elapsed T-cycles; the length counters are clocked
\* when a step 0, 2, 4 or 6 ends, the frequency sweep when a step 2 or 6
\* ends, the volume envelopes when step 7 ends, and at no other time.
C28_FrameSequencer ==
    /\ apu.frame_sequencer_step \in 0..7
    /\ apu.frame_sequencer_step = (total \div 8192) % 8
    /\ apu.frame_sequencer_counter = total % 8192
    /\ kind = "step" =>
          /\ \A c \in {"ch1", "ch2", "ch3"} :
                apu[c].length_timer =
                    LengthAfter(pre[c],
                                SeqCrossed /\ pre.frame_sequencer_step % 2 = 0)
          /\ SweepOf(apu.ch1) =
                IF SeqCrossed /\ pre.frame_sequencer_step \in {2, 6}
                THEN SweepOf(clock_sweep(clock_length(pre.ch1)))
                ELSE SweepOf(pre.ch1)
          /\ \A c \in {"ch1", "ch2"} :
                EnvelopeOf(apu[c]) =
                    IF SeqCrossed /\ pre.frame_sequencer_step = 7
                    THEN EnvelopeOf(clock_envelope(pre[c]))
                    ELSE EnvelopeOf(pre[c])

\* step 7 has ended and clocked the envelope of square 2 from volume 15 to
\* 14, with no length counter and no sweep clocked
C28_Witness ==
    /\ SeqCrossed
    /\ pre.frame_sequencer_step = 7
    /\ apu.frame_sequencer_step = 0
    /\ pre.ch2.current_volume = 15
    /\ apu.ch2.current_volume = 14
    /\ pre.ch1.env_timer = 2
    /\ apu.ch1.env_timer = 1
    /\ pre.ch1.length_enable
    /\ apu.ch1.length_timer = 64
    /\ pre.ch1.sweep_enabled

\* the last step clocked the sweep unit with its timer expiring
SweepFired ==
    /\ SeqCrossed
    /\ pre.frame_sequencer_step \in {2, 6}
    /\ pre.ch1.sweep_enabled
    /\ pre.ch1.sweep_period > 0
    /\ pre.ch1.sweep_timer <= 1

\* shadow + (shadow >> shift) or shadow - (shadow >> shift)
NewFreq ==
    IF pre.ch1.sweep_negate
    THEN pre.ch1.shadow_freq - pre.ch1.shadow_freq \div Pow2(pre.ch1.sweep_shift)
    ELSE pre.ch1.shadow_freq + pre.ch1.shadow_freq \div Pow2(pre.ch1.sweep_shift)

\* the sweep left the shadow and the channel frequency as they were
SweepKept ==
    /\ apu.ch1.shadow_freq = pre.ch1.shadow_freq
    /\ channel_freq(apu.ch1) = channel_freq(pre.ch1)

\* the sweep stored the new frequency as shadow and channel frequency
SweepStored ==
    /\ apu.ch1.shadow_freq = NewFreq
    /\ channel_freq(apu.ch1) = NewFreq

\* C29 as stated : on each sweep tick the new frequency either exceeds 2047
\* and disables the channel, or becomes the shadow and channel frequency.
C29_SweepAnyShift ==
    /\ apu.ch1.shadow_freq <= 2047
    /\ SweepFired => IF NewFreq > 2047 THEN ~apu.ch1.enabled ELSE SweepStored

\* C29 : on each sweep tick of the first square channel the new frequency
\* shadow + (shadow >> shift) or shadow - (shadow >> shift) is computed;
\* if it exceeds 2047 the channel is disabled and the frequencies are kept,
\* otherwise, if the shift is not 0, it becomes the new shadow and channel
\* frequency, and with shift 0 the frequencies are kept; the shadow
\* frequency never exceeds 2047.
C29_Sweep ==
    /\ apu.ch1.shadow_freq \in 0..2047
    /\ SweepFired =>
          IF NewFreq > 2047 THEN ~apu.ch1.enabled /\ SweepKept
          ELSE IF pre.ch1.sweep_shift # 0 THEN SweepStored
          ELSE SweepKept
    /\ (kind = "step" /\ ~SweepFired) => SweepKept

\* the sweep has raised the frequency from 1024 to 1536
C29_Witness ==
    /\ SweepFired
    /\ pre.ch1.shadow_freq = 1024
    /\ pre.ch1.sweep_shift = 1
    /\ ~pre.ch1.sweep_negate
    /\ apu.ch1.shadow_freq = 1536
    /\ apu.ch1.freq_high = 6
    /\ apu.ch1.enabled

----------------------------------------------------------------------------
(* Properties of the decimal adjust, under SpecBcd.                        *)

\* the decimal result of the arithmetic that preceded the adjust, before
\* it is reduced modulo 100
Decimal == IF op = "add" THEN pre.x + pre.y ELSE pre.x - pre.y

\* C30 : for two-digit BCD operands, add followed by the decimal adjust
\* leaves the BCD encoding of (x + y) mod 100 in the accumulator with Carry
\* set iff x + y >= 100, and sub followed by the decimal adjust leaves the
\* BCD encoding of (x - y) mod 100 with Carry set iff x < y; in both cases
\* Zero is set iff the accumulator is 0, HalfCarry is clear and Negative is
\* as the arithmetic left it.
C30_DecimalAdjust ==
    kind = "daa" =>
        /\ reg.a = BcdOf((Decimal + 100) % 100)
        /\ Bit(reg.f, 4) = 1 <=> (Decimal >= 100 \/ Decimal < 0)
        /\ Bit(reg.f, 7) = 1 <=> reg.a = 0
        /\ Bit(reg.f, 5) = 0
        /\ Bit(reg.f, 6) = 1 <=> op = "sub"
        /\ reg.f % 16 = 0

\* 0x45 + 0x77 adjusted to 0x22 with Carry
C30_Witness ==
    /\ kind = "daa"
    /\ op = "add"
    /\ pre.x = 45
    /\ pre.y = 77
    /\ reg.a = 34
    /\ reg.f = 16

----------------------------------------------------------------------------
(* Properties of the conditional jumps, calls and returns, under SpecJump. *)

\* the condition code of a conditional opcode holds for the flag byte f
ConditionHolds(opcode, f) ==
    CASE opcode \in {32, 192, 194, 196} -> Bit(f, 7) = 0
      [] opcode \in {40, 200, 202, 204} -> Bit(f, 7) = 1
      [] opcode \in {48, 208, 210, 212} -> Bit(f, 4) = 0
      [] opcode \in {56, 216, 218, 220} -> Bit(f, 4) = 1

\* the length in bytes and the costs of a conditional opcode
JumpShape(opcode) ==
    CASE opcode \in {32, 40, 48, 56} ->
             [len |-> 2, taken |-> 3, untaken |-> 2]
      [] opcode \in {194, 202, 210, 218} ->
             [len |-> 3, taken |-> 4, untaken |-> 3]
      [] opcode \in {196, 204, 212, 220} ->
             [len |-> 3, taken |-> 6, untaken |-> 3]
      [] opcode \in {192, 200, 208, 216} ->
             [len |-> 1, taken |-> 5, untaken |-> 2]

\* the byte at addr before the instruction
ByteBefore(addr, ext) == bus_read_byte(pre.s, addr, ext)

\* the word at addr before the instruction
WordBefore(addr) ==
    ByteBefore(addr, pre.x) + 256 * ByteBefore(Wrap16(addr + 1), pre.y)

\* the address the opcode branches to
JumpTarget ==
    LET pc == pre.s.reg.pc
        d == ByteBefore(Wrap16(pc + 1), pre.x)
    IN CASE op \in {32, 40, 48, 56} ->
                (pc + 2 + (IF d >= 128 THEN d - 256 ELSE d) + 65536) % 65536
         [] op \in {192, 200, 208, 216} -> WordBefore(pre.s.reg.sp)
         [] OTHER -> WordBefore(Wrap16(pc + 1))

----------------------------------------------------------------------------
(* Properties of the stack, under SpecStack.                               *)

\* the byte a read of addr returns now
ByteAt(addr) == bus_read(CurBus, addr).value

\* the stack pointer lies where both bytes of a push land in work RAM or
\* high RAM, the second one not past 0xFFFE
InRam(sp) == sp \in 49154..65024 \cup 65410..65535

\* a push has completed and left sp two lower
PushDone ==
    kind = "push" => ~fault /\ reg.sp = (pre.sp + 65534) % 65536

\* a push has stored the low byte at sp and the high byte at sp + 1
PushStored ==
    kind = "push" =>
        /\ ByteAt(reg.sp) = op % 256
        /\ ByteAt(Wrap16(reg.sp + 1)) = op \div 256

\* a pop right after a push returns the pushed value and restores sp
PopReturns ==
    kind = "pop" /\ prev.kind = "push" =>
        ~fault /\ op = prev.op /\ reg.sp = prev.sp

\* C32 : a push decrements sp by 2 and stores the low byte at the new sp
\* and the high byte at sp + 1; a pop reads them back and increments sp by
\* 2; for every value and every sp a push followed by a pop returns the
\* pushed value and restores sp.
C32_PushPop == PushDone /\ PushStored /\ PopReturns

\* the same with the stack inside work RAM or high RAM
PushPopInRam ==
    /\ kind = "push" /\ InRam(pre.sp) => PushDone /\ PushStored
    /\ kind = "pop" /\ prev.kind = "push" /\ InRam(prev.sp) => PopReturns

----------------------------------------------------------------------------
(* Properties of the window line counter, under SpecWindow.                *)

\* the update has finished a line
LineEnded == kind = "update" /\ pre.ly_cycles + HalfLine >= 456 /\
             And(pre.lcdc, 128) # 0

\* the window, enabled, covers a pixel of the line that was rendered
WindowCovers ==
    /\ And(pre.lcdc, 32) # 0
    /\ pre.ly >= pre.wy
    /\ \E x \in Columns : x >= pre.wx - 7

\* the counter an update leaves, given that the window was drawn or not
CounterAfter(drawn) ==
    IF LineEnded /\ pre.ly = 153 THEN 0
    ELSE IF LineEnded /\ pre.ly < 144 /\ drawn
    THEN pre.window_line_counter + 1
    ELSE pre.window_line_counter

C40_CounterWithinFrame == ppu.window_line_counter <= 144

----------------------------------------------------------------------------
(* Properties of the sprite selection, under SpecSprite.                   *)

\* the entries of sprite memory whose vertical extent covered the line the
\* update rendered
Covering ==
    {i \in 0..39 :
        LET top == OamGet(pre.oam, 4 * i) - 16
            height == IF Bit(pre.lcdc, 2) = 1 THEN 16 ELSE 8
        IN top <= pre.ly /\ pre.ly < top + height}

\* the elements of a set of numbers in ascending order
RECURSIVE Ascending(_)
Ascending(S) ==
    IF S = {} THEN <<>>
    ELSE LET least == CHOOSE x \in S : \A y \in S : x <= y
         IN <<least>> \o Ascending(S \ {least})

\* the first n elements of a sequence
FirstN(s, n) == SubSeq(s, 1, Min(n, Len(s)))

\* C34 : for each rendered scanline the selected sprites are the first
\* up-to-10 sprite-memory entries, in ascending index order, whose vertical
\* extent (8 or 16 lines by control bit 2) covers ly; the selection never
\* holds more than 10 entries and is empty when sprites are disabled.
C34_SpriteSelection ==
    /\ Len(ppu.scanline_sprites) <= 10
    /\ kind = "update" /\ ret = 1 =>
          ppu.scanline_sprites =
              IF Bit(pre.lcdc, 1) = 0 THEN <<>>
              ELSE FirstN(Ascending(Covering), 10)

\* line 8 rendered with sprites of 16 lines: all 40 entries cover it and the
\* first ten are selected
C34_Witness ==
    /\ kind = "update"
    /\ ret = 1
    /\ pre.ly = 8
    /\ pre.lcdc = 151
    /\ Cardinality(Covering) = 40
    /\ ppu.scanline_sprites = <<0, 1, 2, 3, 4, 5, 6, 7, 8, 9>>

\* line 100 rendered with two of three sprites on it
SparseSelection ==
    /\ kind = "update"
    /\ ret = 1
    /\ pre.ly = 100
    /\ ppu.scanline_sprites = <<20, 39>>

----------------------------------------------------------------------------
(* Properties of the power register, under SpecPower.                      *)

\* the power was switched off and is on again
PoweredAgain == prev.cycled /\ apu.enabled

\* after the power came back, volume and panning read 0x00 until written
VolumeZeroed ==
    kind = "read" /\ PoweredAgain /\ op \in {65316, 65317} /\
    op \notin prev.written => ret = 0

\* after the power came back, a channel not triggered since reads disabled
StatusZeroed ==
    kind = "read" /\ PoweredAgain /\ op = 65318 =>
        \A c \in DOMAIN ChannelControl :
            c \notin prev.triggered => And(ret, ChannelStatus[c]) = 0

\* C35 : powering the synthesizer off zeroes its registers: after a later
\* power-on 0xFF24 and 0xFF25 read 0x00, and no channel is reported
\* enabled in the status bits of 0xFF26 until it is triggered again.
C35_PowerOffZeroes == VolumeZeroed /\ StatusZeroed

----------------------------------------------------------------------------
(* Properties of two processors of one process, under SpecTwin.            *)

\* C36 : the result of a step, including how long a processor stays
\* stopped after STOP, depends only on that processor's own state: the
\* step returns the cost and leaves the state it would on a processor that
\* had been alone, whatever the other instance has executed before.
C36_OwnStateOnly ==
    kind \in {"first", "second"} => pre.actual = pre.alone

\* either processor stepped while the other had never stopped
TwinUndisturbed ==
    (kind = "first" /\ ~prev.stopped /\ prev.reg.pc = 256) \/
    (kind = "second" /\ pre.first = 0 /\ ~stopped)
        => pre.actual = pre.alone

----------------------------------------------------------------------------
(* Properties of the interrupt requests, under Spec.                       *)

\* the requests pending when the step began, without the one it serviced
RequestsLeft == AndNot(And(pre.if_, 31), serviced)

\* C37 : a request bit set in IF stays set across steps until that interrupt
\* is dispatched or a write to 0xFF0F clears it: an instruction (other than
\* the store to 0xFF00 + a8, which can write 0xFF0F) or a halted step leaves
\* every pending request set.
C37_RequestsPersist ==
    kind \in {"instr", "halted"} /\ op # 224 =>
        And(RequestsLeft, if_) = RequestsLeft

\* the same over the steps that do not advance the display: dispatch and
\* stopped steps
RequestsPersistElsewhere ==
    kind \in {"dispatch", "stopped"} =>
        And(RequestsLeft, if_) = RequestsLeft

----------------------------------------------------------------------------
(* Properties of the status register as read, under SpecStat.              *)

\* the low two bits of a read of 0xFF41
StatusModeBits == And(ppu_read_byte(ppu, 65345), 3)

\* C38 : reading the display status register (0xFF41) returns the current
\* display mode in its low two bits in every reachable state, also right
\* after power-on and before any write to the status register.
C38_StatusReadsMode == StatusModeBits = ppu.mode

\* the same once the low two bits of the stored status byte are clear, as a
\* write to 0xFF41 leaves them
StatusReadsModeOnceWritten ==
    And(ppu.stat, 3) = 0 => StatusModeBits = ppu.mode

----------------------------------------------------------------------------
(* Properties of the stereo mix, under SpecMix.                            *)

\* the sum of the current amplitudes of the channels panned to a side
Panned(pan) ==
    OverChannels([c \in DOMAIN pan |->
                     IF And(apu.nr51, pan[c]) # 0
                     THEN ChannelOf(apu)[c].last_amp ELSE 0])

\* C39 : for each stereo side the running sum of the amplitude deltas
\* delivered to its resampler equals the sum of the current amplitudes of
\* the channels whose panning bit for that side is set, after any sequence
\* of ticks and of writes to the panning and power registers.
C39_StereoSums ==
    /\ prev.left = Panned(PanLeft)
    /\ prev.right = Panned(PanRight)

\* the same while every write came before the first tick
StereoSumsSteadyPanning ==
    irq = 0 => C39_StereoSums

=============================================================================
